---- MODULE Spec2Model ----
(***************************************************************************)
(* Astrality: the module action-orchestration engine.                      *)
(*                                                                         *)
(*   Module         normalisation of event blocks, trigger resolution,     *)
(*                  placeholder interpolation, valid_class_section         *)
(*   ModuleManager  registries, the run loop (finish_tasks / exit) and the *)
(*                  watcher callback (modified), including hot reload      *)
(*                                                                         *)
(* A Python string is a sequence of atoms (Str); a placeholder such as     *)
(* '{event}' is the three atoms "{", "event", "}", so that str.replace,    *)
(* str.split and path expansion are computed, not assumed.                 *)
(***************************************************************************)
EXTENDS Integers, Sequences, FiniteSets, TLC

(***************************************************************************)
(* Bounds of the model.                                                    *)
(***************************************************************************)
\* managers that may be constructed in one run (the first one and reloads)
MaxManagers == 2
\* trigger references declared by one module, over all its blocks
MaxTriggers == 2
\* entries of a 'requires' list
MaxRequires == 2

(***************************************************************************)
(* Strings.                                                                *)
(***************************************************************************)
\* Python's None, where a string is optional
None == <<"None">>

Range(s) == {s[i] : i \in DOMAIN s}

\* str.replace(old, new): left to right, non-overlapping
RECURSIVE Replace(_, _, _)
Replace(s, old, new) ==
    IF old = <<>> \/ Len(s) < Len(old) THEN s
    ELSE IF SubSeq(s, 1, Len(old)) = old
         THEN new \o Replace(SubSeq(s, Len(old) + 1, Len(s)), old, new)
         ELSE <<Head(s)>> \o Replace(Tail(s), old, new)

\* str.split(sep) for a one-atom separator
RECURSIVE Split(_, _)
Split(s, sep) ==
    IF \A i \in DOMAIN s : s[i] # sep THEN <<s>>
    ELSE LET i == CHOOSE k \in DOMAIN s :
                      s[k] = sep /\ \A j \in 1..(k - 1) : s[j] # sep
         IN <<SubSeq(s, 1, i - 1)>> \o Split(SubSeq(s, i + 1, Len(s)), sep)

\* 'x in s' for a one-atom x
Contains(s, atom) == \E i \in DOMAIN s : s[i] = atom

RECURSIVE Flatten(_)
Flatten(ss) == IF ss = <<>> THEN <<>> ELSE Head(ss) \o Flatten(Tail(ss))

(***************************************************************************)
(* Configuration values as the user may write them: a key may be absent,   *)
(* hold one item, or hold a list.                                          *)
(***************************************************************************)
Absent == [t |-> "absent", v |-> <<>>]
One(x) == [t |-> "one", v |-> x]
List(xs) == [t |-> "list", v |-> xs]

EventBlockNames == <<"on_startup", "on_event", "on_exit">>
ActionNames == {"import_context", "compile", "run", "trigger"}

\* module.py:92-97: the block every event block starts from
EmptyBlock ==
    [import_context |-> <<>>, compile |-> <<>>, run |-> <<>>, trigger |-> <<>>]

\* module.py:98 and 122-124: dict.update with the configured block, then a
\* category that is not a list becomes the list of that one item
PopulateBlock(raw) ==
    IF raw.t = "absent" THEN EmptyBlock
    ELSE [a \in ActionNames |->
            CASE raw.v[a].t = "absent" -> <<>>
              [] raw.v[a].t = "one" -> <<raw.v[a].v>>
              [] OTHER -> raw.v[a].v]

\* module.py:84-124: options is the section's mapping; the result is the
\* mapping after normalisation (on_modified keeps its key order)
populate_event_blocks(options) ==
    [on_startup |-> PopulateBlock(options.on_startup),
     on_event |-> PopulateBlock(options.on_event),
     on_exit |-> PopulateBlock(options.on_exit),
     on_modified |->
        IF options.on_modified.t = "absent" THEN <<>>
        ELSE [i \in DOMAIN options.on_modified.v |->
                [path |-> options.on_modified.v[i].path,
                 block |-> PopulateBlock(One(options.on_modified.v[i].block))]]]

\* the on_modified entry of a watched path (dict lookup by key)
HasModified(mc, template) == \E i \in DOMAIN mc.on_modified : mc.on_modified[i].path = template
ModifiedBlock(mc, template) ==
    mc.on_modified[CHOOSE i \in DOMAIN mc.on_modified : mc.on_modified[i].path = template].block

\* module.py:152-156: the block a trigger reference names; found is FALSE
\* where the code raises KeyError ({}['run'], or a key the mapping lacks)
FromEventBlockDict(mc, from_event_block) ==
    IF Contains(from_event_block, "on_modified.")
    THEN LET template == Tail(from_event_block)
         IN IF HasModified(mc, template)
            THEN [found |-> TRUE, block |-> ModifiedBlock(mc, template)]
            ELSE [found |-> FALSE, block |-> EmptyBlock]
    ELSE IF Len(from_event_block) = 1 /\ from_event_block[1] \in Range(EventBlockNames)
         THEN [found |-> TRUE, block |-> mc[from_event_block[1]]]
         ELSE [found |-> FALSE, block |-> EmptyBlock]

ImportRaises(mc, from_event_block) == ~FromEventBlockDict(mc, from_event_block).found

\* a variant of _import_event_block that puts the referenced lists first
import_event_block_prepend(mc, from_event_block, into) ==
    LET Extend(d) ==
            [mc EXCEPT ![into] =
                [@ EXCEPT !.run = d.run \o @,
                          !.import_context = d.import_context \o @,
                          !.compile = d.compile \o @]]
    IN Extend(FromEventBlockDict(mc, from_event_block).block)

\* module.py:146-160: into is the name of the top-level block being extended
import_event_block(mc, from_event_block, into) ==
    LET Extend(d) ==
            [mc EXCEPT ![into] =
                [@ EXCEPT !.run = @ \o d.run,
                          !.import_context = @ \o d.import_context,
                          !.compile = @ \o d.compile]]
    IN Extend(FromEventBlockDict(mc, from_event_block).block)

\* module.py:140-144 for one block: its triggers in list order.  The result
\* is [ok, mc]; ok is FALSE when a reference raised.
RECURSIVE ImportBlockTriggers(_, _, _)
ImportBlockTriggers(mc, into, trigs) ==
    IF trigs = <<>> THEN [ok |-> TRUE, mc |-> mc]
    ELSE IF ImportRaises(mc, Head(trigs)) THEN [ok |-> FALSE, mc |-> mc]
    ELSE ImportBlockTriggers(import_event_block(mc, Head(trigs), into), into, Tail(trigs))

\* module.py:126-144.  The tuple of event blocks holds on_startup, on_event,
\* on_exit and, as its fourth element, the dict_values view of on_modified:
\* 'trigger' in that view is false, so no on_modified block is ever resolved.
RECURSIVE ImportFrom(_, _)
ImportFrom(mc, k) ==
    IF k > Len(EventBlockNames) THEN [ok |-> TRUE, mc |-> mc]
    ELSE LET Continue(r) == IF r.ok THEN ImportFrom(r.mc, k + 1) ELSE r
         IN Continue(ImportBlockTriggers(mc, EventBlockNames[k],
                                         mc[EventBlockNames[k]].trigger))

import_trigger_actions(mc) == ImportFrom(mc, 1)

(***************************************************************************)
(* Event listeners (external): the value of a static listener is fixed by  *)
(* its configuration, the value of any other kind is read from the clock.  *)
(***************************************************************************)
StaticListener(value) == [type |-> "static", value |-> value]
ClockListener(kind) == [type |-> kind, value |-> None]

\* module.py:80-82: a module without event_listener gets a static one
event_listener_factory(options) ==
    IF options.event_listener.t = "absent" THEN StaticListener(<<"static">>)
    ELSE options.event_listener.v

\* EventListener.event(): clock maps each non-static kind to its current value
Event(listener, clock) ==
    IF listener.type = "static" THEN listener.value ELSE clock[listener.type]

EventPlaceholder == <<"{", "event", "}">>

\* a variant that hands the string back as it is
interpolate_string_identity(module, string, clock) == string

\* module.py:274-280
interpolate_string(module, string, clock) ==
    Replace(string, EventPlaceholder, Event(module.event_listener, clock))

\* module.py:166-174 (and 180-188, 194-202, 208-216): the shared body of the
\* four command accessors
InterpolatedCommands(module, commands, clock) ==
    IF Len(commands) = 0 THEN <<>>
    ELSE [i \in DOMAIN commands |-> interpolate_string(module, commands[i], clock)]

\* module.py:162-174
startup_commands(module, clock) ==
    InterpolatedCommands(module, module.module_config.on_startup.run, clock)

\* module.py:176-188
on_event_commands(module, clock) ==
    InterpolatedCommands(module, module.module_config.on_event.run, clock)

\* module.py:190-202
exit_commands(module, clock) ==
    InterpolatedCommands(module, module.module_config.on_exit.run, clock)

\* module.py:204-216
modified_commands(module, template_name, clock) ==
    InterpolatedCommands(module, ModifiedBlock(module.module_config, template_name).run, clock)

\* module.py:230: the triggers the assertion lets through
ContextImportTriggers == {"on_startup", "on_event", "on_startup"}

\* a variant that keeps to_section of a specification without from_section
ContextSectionImport_keeps_to_section(module, context_import, clock) ==
    [into_section |->
        IF context_import.to_section # None
        THEN interpolate_string(module, context_import.to_section, clock)
        ELSE IF context_import.from_section # None
             THEN interpolate_string(module, context_import.from_section, clock)
             ELSE None,
     from_section |->
        IF context_import.from_section # None
        THEN interpolate_string(module, context_import.from_section, clock)
        ELSE None,
     from_config_file |-> interpolate_string(module, context_import.from_path, clock)]

\* module.py:238-269 for one import specification
ContextSectionImport(module, context_import, clock) ==
    LET has_from == context_import.from_section # None
        Import(from_section) ==
            [into_section |->
                IF has_from
                THEN interpolate_string(module,
                        IF context_import.to_section # None
                        THEN context_import.to_section ELSE from_section, clock)
                ELSE None,
             from_section |-> from_section,
             from_config_file |-> interpolate_string(module, context_import.from_path, clock)]
    IN Import(IF has_from
              THEN interpolate_string(module, context_import.from_section, clock)
              ELSE None)

\* module.py:219-271.  ok is FALSE where the code raises: the assertion on
\* the trigger (230), or context_import['from_path'] of a specification
\* that has no from_path (240).
context_section_imports(module, trigger, clock) ==
    LET import_config == module.module_config[trigger].import_context
    IN IF trigger \notin ContextImportTriggers
          \/ \E i \in DOMAIN import_config : import_config[i].from_path = None
       THEN [ok |-> FALSE, imports |-> <<>>]
       ELSE [ok |-> TRUE,
             imports |-> [i \in DOMAIN import_config |->
                            ContextSectionImport(module, import_config[i], clock)]]

(***************************************************************************)
(* valid_class_section.  The shell runner (external) is the set of         *)
(* predicates that fail; run_shell(fallback=False) then returns False.     *)
(***************************************************************************)
run_shell_is_False(requirement, failing) == requirement \in failing

\* a variant of the requirement loop that runs the first requirement only
RequirementsPass_first_only(requires, failing) ==
    IF requires = <<>> THEN TRUE ELSE ~run_shell_is_False(Head(requires), failing)

\* module.py:314-319: the first failing requirement rejects the module
RECURSIVE RequirementsPass(_, _)
RequirementsPass(requires, failing) ==
    IF requires = <<>> THEN TRUE
    ELSE IF run_shell_is_False(Head(requires), failing) THEN FALSE
    ELSE RequirementsPass(Tail(requires), failing)

\* module.py:299: options.get('enabled', True)
EnabledOption(options) ==
    IF options.enabled.t = "absent" THEN TRUE ELSE options.enabled.v

\* module.py:282-324 for the one-item mapping {key: options}
valid_class_section(key, options, failing) ==
    LET valid_module_name == Split(key, "/")[1] = <<"module">>
        enabled == EnabledOption(options)
        requires == options.requires
    IN IF ~(valid_module_name /\ enabled) THEN FALSE
       ELSE IF requires.t = "absent" \/ requires.v = <<>> THEN TRUE
       ELSE RequirementsPass(IF requires.t = "one" THEN <<requires.v>> ELSE requires.v,
                             failing)

\* module.py:52-82.  ok is FALSE where the constructor raises: section.split
\* ('/')[1] of a key without '/', or a trigger reference that names no block.
Module(key, options) ==
    LET Object(parts, r) ==
            [ok |-> Len(parts) >= 2 /\ r.ok,
             name |-> IF Len(parts) >= 2 THEN parts[2] ELSE <<>>,
             module_config |-> r.mc,
             event_listener |-> event_listener_factory(options)]
    IN Object(Split(key, "/"), import_trigger_actions(populate_event_blocks(options)))

(***************************************************************************)
(* Python dicts that are iterated: a sequence of [key, value] in insertion *)
(* order; assigning to a key that is present keeps its position.           *)
(***************************************************************************)
DictHas(d, k) == \E i \in DOMAIN d : d[i].key = k
DictGet(d, k) == d[CHOOSE i \in DOMAIN d : d[i].key = k].value
\* a variant in which assigning to a key that is present changes nothing
DictPut_keep_first(d, k, v) ==
    IF DictHas(d, k) THEN d ELSE Append(d, [key |-> k, value |-> v])

DictPut(d, k, v) ==
    IF DictHas(d, k)
    THEN [i \in DOMAIN d |-> IF d[i].key = k THEN [key |-> k, value |-> v] ELSE d[i]]
    ELSE Append(d, [key |-> k, value |-> v])
DictKeys(d) == {d[i].key : i \in DOMAIN d}

(***************************************************************************)
(* The file system and the other collaborators the manager reads.          *)
(***************************************************************************)
ConfigDirectory == <<"/", "cfg">>
HomeDirectory == <<"/", "home">>
\* module.py:617: config_directory / 'astrality.yaml'
RootConfigFile == ConfigDirectory \o <<"/", "astrality.yaml">>

\* module.py:693-709
expand_path(path) ==
    LET expanded == IF path # <<>> /\ path[1] = "~"
                    THEN HomeDirectory \o Tail(path) ELSE path
    IN IF expanded # <<>> /\ expanded[1] = "/" THEN expanded
       ELSE ConfigDirectory \o <<"/">> \o expanded

\* template sources that exist on disk; compiling any other one is the
\* compiler's "template not found"
ExistingTemplates == {expand_path(<<"t1">>), expand_path(<<"t2">>)}

\* context files on disk: path -> (section -> value)
ContextFiles ==
    (expand_path(<<"colors">>) :>
        ((<<"fonts">> :> [size |-> "12"]) @@ (<<"colors">> :> [fg |-> "white"])))

\* config.py:73-76 and 233-234: the file must exist and hold from_section
InsertRaises(csi) ==
    LET file == expand_path(csi.from_config_file)
    IN \/ file \notin DOMAIN ContextFiles
       \/ csi.from_section # None /\ csi.from_section \notin DOMAIN ContextFiles[file]

\* insert_into(context, section, from_section, from_config_file): the named
\* subtree is replaced by the file's; with both sections unset the whole
\* file is imported
insert_into(context, csi) ==
    LET file == ContextFiles[expand_path(csi.from_config_file)]
    IN IF csi.from_section = None THEN file @@ context
       ELSE (csi.into_section :> file[csi.from_section]) @@ context

(***************************************************************************)
(* What a handler did, in order: one entry per context import, template    *)
(* compilation, shell command and logged error.                            *)
(***************************************************************************)
Entry(act, id, module, trigger, arg) ==
    [act |-> act, mgr |-> id, module |-> module, trigger |-> trigger, arg |-> arg]

(***************************************************************************)
(* ModuleManager: construction.                                            *)
(***************************************************************************)
\* module.py:339-347: the modules of the accepted sections, in order.  The
\* result is [ok, modules]; ok is FALSE when a Module constructor raised.
RECURSIVE ConstructModules(_, _, _)
ConstructModules(sections, failing, modules) ==
    IF sections = <<>> THEN [ok |-> TRUE, modules |-> modules]
    ELSE LET s == Head(sections)
         IN IF ~valid_class_section(s.key, s.options, failing)
            THEN ConstructModules(Tail(sections), failing, modules)
            ELSE LET Add(module) ==
                        IF ~module.ok THEN [ok |-> FALSE, modules |-> modules]
                        ELSE ConstructModules(Tail(sections), failing,
                                DictPut(modules, module.name,
                                    [name |-> module.name,
                                     module_config |-> module.module_config,
                                     event_listener |-> module.event_listener]))
                 IN Add(Module(s.key, s.options))

\* module.py:378-383: the blocks of a module that can hold compile actions
CompileBlocks(mc) ==
    <<mc.on_startup, mc.on_event, mc.on_exit>>
        \o [i \in DOMAIN mc.on_modified |-> mc.on_modified[i].block]

\* module.py:376-384: every compile action with its module, in scan order
ScanCompileActions(modules) ==
    LET OfBlocks(name, blocks) ==
            Flatten([b \in DOMAIN blocks |->
                [c \in DOMAIN blocks[b].compile |->
                    [module |-> name, action |-> blocks[b].compile[c]]]])
    IN Flatten([i \in DOMAIN modules |->
            OfBlocks(modules[i].key, CompileBlocks(modules[i].value.module_config))])

\* module.py:721-737: the path of the n-th temporary file ever created
TempFilePath(name, n) == <<"/", "tmp", "/">> \o name \o <<"-", ToString(n)>>

\* module.py:384-396 over the scanned actions; acc is [templates,
\* temp_files], n the number of temporary files created before
RECURSIVE PrepareScanned(_, _, _)
PrepareScanned(scanned, acc, n) ==
    IF scanned = <<>> THEN acc
    ELSE LET compile_action == Head(scanned).action
             specified_source == compile_action.template
             absolute_source == expand_path(specified_source)
             has_target == compile_action.target # None
             target == IF has_target THEN expand_path(compile_action.target)
                       ELSE TempFilePath(Head(scanned).module, n + 1)
         IN PrepareScanned(Tail(scanned),
                [templates |-> DictPut(acc.templates, specified_source,
                                    [source |-> absolute_source, target |-> target]),
                 temp_files |-> IF has_target THEN acc.temp_files
                                ELSE Append(acc.temp_files, target)],
                IF has_target THEN n ELSE n + 1)

\* module.py:363-398
prepare_templates(modules, n) ==
    PrepareScanned(ScanCompileActions(modules), [templates |-> <<>>, temp_files |-> <<>>], n)

\* module.py:426-442
generate_string_replacements(templates) ==
    [i \in DOMAIN templates |-> [key |-> templates[i].key, value |-> templates[i].value.target]]

\* module.py:413-422 over every (module, watched key), in order
RECURSIVE WatchScanned(_, _)
WatchScanned(scanned, on_modified_paths) ==
    IF scanned = <<>> THEN on_modified_paths
    ELSE LET on_modified_path == expand_path(Head(scanned).watched)
         IN WatchScanned(Tail(scanned),
                DictPut(on_modified_paths, on_modified_path,
                    [path |-> on_modified_path,
                     module |-> Head(scanned).module,
                     specified_path |-> Head(scanned).watched]))

\* module.py:401-424
find_on_modified_paths(modules) ==
    WatchScanned(
        Flatten([i \in DOMAIN modules |->
            [k \in DOMAIN modules[i].value.module_config.on_modified |->
                [module |-> modules[i].key,
                 watched |-> modules[i].value.module_config.on_modified[k].path]]]),
        <<>>)

\* module.py:329-357.  config is the resolved root configuration, name the
\* file it was read from; ok is FALSE when construction raised.
\* a variant in which the constructor starts the watcher
DirectoryWatcher_started == "running"

\* module.py:353-357: the watcher is created and not started
DirectoryWatcher == "created"

ModuleManager(name, config, failing, n) ==
    LET Object(built, prepared) ==
            [ok |-> built.ok,
             application_config |-> name,
             application_context |-> config.context,
             modules |-> built.modules,
             startup_done |-> FALSE,
             last_module_events |-> <<>>,
             templates |-> prepared.templates,
             string_replacements |-> generate_string_replacements(prepared.templates),
             on_modified_paths |-> find_on_modified_paths(built.modules),
             temp_files |-> prepared.temp_files,
             directory_watcher |-> DirectoryWatcher]
        Prepare(built) == Object(built, prepare_templates(built.modules, n))
    IN Prepare(ConstructModules(config.sections, failing, <<>>))

(***************************************************************************)
(* ModuleManager: operations.  Each returns the manager after the call,    *)
(* the entries the call executed and whether it raised.                    *)
(***************************************************************************)
\* module.py:444-450
module_events(m, clock) ==
    [name \in DictKeys(m.modules) |->
        Event(DictGet(m.modules, name).event_listener, clock)]

\* module.py:711-719
RECURSIVE ReplaceTemplates(_, _)
ReplaceTemplates(string, templates) ==
    IF templates = <<>> THEN string
    ELSE ReplaceTemplates(
            Replace(string, <<"{">> \o Head(templates).key \o <<"}">>,
                    Head(templates).value.target),
            Tail(templates))

manager_interpolate_string(m, string) == ReplaceTemplates(string, m.templates)

\* module.py:674-691 for the commands of one module
RunCommands(m, id, name, trigger, commands) ==
    [i \in DOMAIN commands |->
        Entry("run", id, name, trigger, <<manager_interpolate_string(m, commands[i])>>)]

\* module.py:505-511 for the imports of one module: [context, log, raised]
RECURSIVE InsertImports(_, _, _, _, _)
InsertImports(context, imports, id, name, trigger) ==
    IF imports = <<>> THEN [context |-> context, log |-> <<>>, raised |-> FALSE]
    ELSE IF InsertRaises(Head(imports))
         THEN [context |-> context, log |-> <<>>, raised |-> TRUE]
         ELSE LET csi == Head(imports)
                  After(rest) ==
                    [context |-> rest.context,
                     log |-> <<Entry("import", id, name, trigger,
                                     <<csi.into_section, csi.from_section,
                                       expand_path(csi.from_config_file)>>)>> \o rest.log,
                     raised |-> rest.raised]
              IN After(InsertImports(insert_into(context, csi), Tail(imports),
                                     id, name, trigger))

\* module.py:502-511 over the modules from position k on
RECURSIVE ImportModulesFrom(_, _, _, _, _, _)
ImportModulesFrom(context, modules, k, id, trigger, clock) ==
    IF k > Len(modules) THEN [context |-> context, log |-> <<>>, raised |-> FALSE]
    ELSE LET module == modules[k].value
             Join(here, rest) ==
                [context |-> rest.context, log |-> here.log \o rest.log,
                 raised |-> rest.raised]
             Next(here) ==
                IF here.raised THEN here
                ELSE Join(here, ImportModulesFrom(here.context, modules, k + 1,
                                                  id, trigger, clock))
             Insert(csis) ==
                IF ~csis.ok THEN [context |-> context, log |-> <<>>, raised |-> TRUE]
                ELSE Next(InsertImports(context, csis.imports, id, module.name, trigger))
         IN Insert(context_section_imports(module, trigger, clock))

\* a variant that goes through the modules in reverse order
import_context_sections_reversed(m, id, trigger, clock) ==
    LET Result(r) ==
            [mgr |-> [m EXCEPT !.application_context = r.context],
             log |-> r.log, raised |-> r.raised]
    IN Result(ImportModulesFrom(m.application_context,
                                [i \in DOMAIN m.modules |-> m.modules[Len(m.modules) + 1 - i]],
                                1, id, trigger, clock))

\* module.py:492-511
import_context_sections(m, id, trigger, clock) ==
    LET Result(r) ==
            [mgr |-> [m EXCEPT !.application_context = r.context],
             log |-> r.log, raised |-> r.raised]
    IN Result(ImportModulesFrom(m.application_context, m.modules, 1, id, trigger, clock))

\* module.py:533-551: the compiler's "template not found" is logged, not raised
compile_template(id, name, trigger, template) ==
    IF template.source \in ExistingTemplates
    THEN Entry("compile", id, name, trigger, <<template.source, template.target>>)
    ELSE Entry("compile_error", id, name, trigger, <<template.source, template.target>>)

\* a variant in which a template file that does not exist ends the loop
CompileActions_stop_at_missing_file(m, id, trigger, actions) ==
    LET missing == {c \in DOMAIN actions :
                        \/ ~DictHas(m.templates, actions[c].action.template)
                        \/ DictGet(m.templates, actions[c].action.template).source
                              \notin ExistingTemplates}
        stop == IF missing = {} THEN Len(actions)
                ELSE (CHOOSE c \in missing : \A d \in missing : c <= d) - 1
    IN [log |-> [c \in 1..stop |->
                    compile_template(id, actions[c].name, trigger,
                                     DictGet(m.templates, actions[c].action.template))],
        raised |-> missing # {}]

\* module.py:524-530 (and 658-663) for compile actions [name, action] in
\* order; self.templates[...] of a key the registry lacks raises, which
\* ends the loop
CompileActions(m, id, trigger, actions) ==
    LET missing == {c \in DOMAIN actions : ~DictHas(m.templates, actions[c].action.template)}
        stop == IF missing = {} THEN Len(actions)
                ELSE (CHOOSE c \in missing : \A d \in missing : c <= d) - 1
    IN [log |-> [c \in 1..stop |->
                    compile_template(id, actions[c].name, trigger,
                                     DictGet(m.templates, actions[c].action.template))],
        raised |-> missing # {}]

\* module.py:513-530
compile_templates(m, id, trigger) ==
    CompileActions(m, id, trigger,
        Flatten([i \in DOMAIN m.modules |->
            [c \in DOMAIN m.modules[i].value.module_config[trigger].compile |->
                [name |-> m.modules[i].key,
                 action |-> m.modules[i].value.module_config[trigger].compile[c]]]]))

\* module.py:553-568
startup(m, id, clock) ==
    [mgr |-> [m EXCEPT !.startup_done = TRUE, !.directory_watcher = "running"],
     log |-> Flatten([i \in DOMAIN m.modules |->
                RunCommands(m, id, m.modules[i].key, "on_startup",
                            startup_commands(m.modules[i].value, clock))])]

\* a variant of on_event that leaves the baseline as it was
on_event_stale_baseline(m, id, clock, clock_end) ==
    [mgr |-> m,
     log |-> Flatten([i \in DOMAIN m.modules |->
                RunCommands(m, id, m.modules[i].key, "on_event",
                            on_event_commands(m.modules[i].value, clock))])]

\* module.py:570-582; clock_end is the clock when line 582 reads the events
on_event(m, id, clock, clock_end) ==
    [mgr |-> [m EXCEPT !.last_module_events = module_events(m, clock_end)],
     log |-> Flatten([i \in DOMAIN m.modules |->
                RunCommands(m, id, m.modules[i].key, "on_event",
                            on_event_commands(m.modules[i].value, clock))])]

\* a variant of the batch that runs the commands before the compilations
Batch_commands_first(m, id, trigger, clock, clock_end) ==
    LET Commands(imported, compiled, ran) ==
            [mgr |-> ran.mgr, log |-> imported.log \o ran.log \o compiled.log,
             raised |-> FALSE]
        Compiled(imported, compiled) ==
            IF compiled.raised
            THEN [mgr |-> imported.mgr, log |-> imported.log \o compiled.log,
                  raised |-> TRUE]
            ELSE Commands(imported, compiled,
                    IF trigger = "on_startup" THEN startup(imported.mgr, id, clock)
                    ELSE on_event(imported.mgr, id, clock, clock_end))
        Imported(imported) ==
            IF imported.raised
            THEN [mgr |-> imported.mgr, log |-> imported.log, raised |-> TRUE]
            ELSE Compiled(imported, compile_templates(imported.mgr, id, trigger))
    IN Imported(import_context_sections(m, id, trigger, clock))

\* module.py:469-471 and 473-475: imports, compilations, then the commands
\* of the trigger; the first step that raises ends the call
Batch(m, id, trigger, clock, clock_end) ==
    LET Commands(imported, compiled, ran) ==
            [mgr |-> ran.mgr, log |-> imported.log \o compiled.log \o ran.log,
             raised |-> FALSE]
        Compiled(imported, compiled) ==
            IF compiled.raised
            THEN [mgr |-> imported.mgr, log |-> imported.log \o compiled.log,
                  raised |-> TRUE]
            ELSE Commands(imported, compiled,
                    IF trigger = "on_startup" THEN startup(imported.mgr, id, clock)
                    ELSE on_event(imported.mgr, id, clock, clock_end))
        Imported(imported) ==
            IF imported.raised
            THEN [mgr |-> imported.mgr, log |-> imported.log, raised |-> TRUE]
            ELSE Compiled(imported, compile_templates(imported.mgr, id, trigger))
    IN Imported(import_context_sections(m, id, trigger, clock))

\* a variant of finish_tasks that does not consult startup_done
finish_tasks_always_startup(m, id, clock, clock_end) ==
    LET Done(r, batch) ==
            [mgr |-> r.mgr, log |-> r.log, raised |-> r.raised, batch |-> batch]
    IN Done(Batch([m EXCEPT !.last_module_events = module_events(m, clock)],
                  id, "on_startup", clock, clock_end), "on_startup")

\* module.py:452-475
finish_tasks(m, id, clock, clock_end) ==
    LET Done(r, batch) ==
            [mgr |-> r.mgr, log |-> r.log, raised |-> r.raised, batch |-> batch]
    IN IF ~m.startup_done
       THEN Done(Batch([m EXCEPT !.last_module_events = module_events(m, clock)],
                       id, "on_startup", clock, clock_end), "on_startup")
       ELSE IF m.last_module_events # module_events(m, clock)
            THEN Done(Batch(m, id, "on_event", clock, clock_end), "on_event")
            ELSE [mgr |-> m, log |-> <<>>, raised |-> FALSE, batch |-> "none"]

\* EventListener.time_until_next_event() (external): remaining maps each
\* listener type to the seconds until its next change
ListenerTimeUntilNextEvent(listener, remaining) == remaining[listener.type]

\* Python's min over a non-empty sequence
RECURSIVE Min(_)
Min(values) ==
    IF Len(values) = 1 THEN values[1]
    ELSE IF values[1] <= Min(Tail(values)) THEN values[1] ELSE Min(Tail(values))

\* a variant that answers with the first module's value
time_until_next_event_first(m, remaining) ==
    IF m.modules = <<>> THEN [raised |-> TRUE, value |-> 0]
    ELSE [raised |-> FALSE,
          value |-> ListenerTimeUntilNextEvent(m.modules[1].value.event_listener,
                                               remaining)]

\* module.py:484-490; min() of no value raises ValueError
time_until_next_event(m, remaining) ==
    IF m.modules = <<>> THEN [raised |-> TRUE, value |-> 0]
    ELSE [raised |-> FALSE,
          value |-> Min([i \in DOMAIN m.modules |->
                          ListenerTimeUntilNextEvent(m.modules[i].value.event_listener,
                                                     remaining)])]

\* a variant that reports unfinished tasks only before startup
has_unfinished_tasks_before_startup(m, clock) == ~m.startup_done

\* module.py:477-482
has_unfinished_tasks(m, clock) ==
    IF ~m.startup_done THEN TRUE
    ELSE m.last_module_events # module_events(m, clock)

\* a variant of exit that has nothing to do for a manager that never started
exit_when_started(m, id, clock) ==
    IF ~m.startup_done THEN [mgr |-> m, log |-> <<>>, closed |-> {}]
    ELSE [mgr |-> [m EXCEPT !.directory_watcher = "stopped"],
          log |-> Flatten([i \in DOMAIN m.modules |->
                     RunCommands(m, id, m.modules[i].key, "on_exit",
                                 exit_commands(m.modules[i].value, clock))]),
          closed |-> Range(m.temp_files)]

\* module.py:584-605.  closed is the set of temporary files released.
exit(m, id, clock) ==
    [mgr |-> [m EXCEPT !.directory_watcher = "stopped"],
     log |-> Flatten([i \in DOMAIN m.modules |->
                RunCommands(m, id, m.modules[i].key, "on_exit",
                            exit_commands(m.modules[i].value, clock))]),
     closed |-> Range(m.temp_files)]

(***************************************************************************)
(* The root configurations the file on disk may hold.                      *)
(***************************************************************************)
NoOptions ==
    [enabled |-> Absent, requires |-> Absent, event_listener |-> Absent,
     on_startup |-> Absent, on_event |-> Absent, on_exit |-> Absent,
     on_modified |-> Absent]

NoActions ==
    [import_context |-> Absent, compile |-> Absent, run |-> Absent, trigger |-> Absent]

ImportSpec(from_path, from_section, to_section) ==
    [from_path |-> from_path, from_section |-> from_section, to_section |-> to_section]

CompileSpec(template, target) == [template |-> template, target |-> target]

ModuleA ==
    [NoOptions EXCEPT
        !.event_listener = One(ClockListener("weekday")),
        !.requires = One(<<"true">>),
        !.on_startup = One([NoActions EXCEPT
            !.import_context = One(ImportSpec(<<"colors">>, <<"fonts">>, None)),
            !.compile = One(CompileSpec(<<"t1">>, <<"o1">>)),
            !.run = One(<<"start", "{", "event", "}">>)]),
        !.on_event = One([NoActions EXCEPT
            !.compile = List(<<CompileSpec(<<"t2">>, None)>>),
            !.run = List(<<<<"show", "{", "event", "}", "{", "t2", "}">>>>)]),
        !.on_exit = One([NoActions EXCEPT !.run = One(<<"bye", "{", "event", "}">>)]),
        !.on_modified = One(<<
            [path |-> <<"t1">>,
             block |-> [NoActions EXCEPT
                !.import_context = One(ImportSpec(<<"colors">>, <<"colors">>, None)),
                !.compile = One(CompileSpec(<<"t1">>, <<"o1">>)),
                !.run = List(<<<<"reload", "{", "t1", "}">>, <<"notify">>>>)]],
            [path |-> <<"w1">>,
             block |-> [NoActions EXCEPT !.run = One(<<"touched">>)]]>>)]

ModuleB ==
    [NoOptions EXCEPT
        !.on_startup = One([NoActions EXCEPT
            !.run = One(<<"b-start">>), !.trigger = One(<<"on_event">>)]),
        !.on_event = One([NoActions EXCEPT
            !.import_context = List(<<ImportSpec(<<"colors">>, <<"colors">>, <<"fonts">>),
                                      ImportSpec(<<"colors">>, <<"colors">>, None)>>),
            !.compile = List(<<CompileSpec(<<"t3">>, <<"o3">>),
                               CompileSpec(<<"t1">>, <<"o1b">>)>>),
            !.run = One(<<"b-event">>)])]

ModuleOff == [ModuleB EXCEPT !.enabled = One(FALSE)]

ModuleNeedy == [ModuleB EXCEPT !.requires = List(<<<<"true">>, <<"false">>>>)]

\* a replacement for module a: a solar listener, a temporary target
ModuleA2 ==
    [NoOptions EXCEPT
        !.event_listener = One(ClockListener("solar")),
        !.on_startup = One([NoActions EXCEPT
            !.compile = One(CompileSpec(<<"t1">>, None)),
            !.run = One(<<"start2", "{", "t1", "}">>)]),
        !.on_exit = One([NoActions EXCEPT !.run = One(<<"bye2">>)])]

\* its import specification has no from_path
ModuleBadImport ==
    [ModuleA2 EXCEPT
        !.on_startup = One([NoActions EXCEPT
            !.import_context = List(<<ImportSpec(<<"colors">>, None, None),
                                      ImportSpec(None, <<"fonts">>, None)>>),
            !.run = One(<<"start3">>)])]

\* its trigger names an on_modified entry that does not exist
ModuleBadTrigger ==
    [ModuleA2 EXCEPT
        !.on_exit = One([NoActions EXCEPT
            !.run = One(<<"bye4">>), !.trigger = One(<<"on_modified.", "t9">>)])]

Section(key, options) == [key |-> key, options |-> options]

\* the context sections of the root configuration: section -> subtree
RootContext ==
    (<<"fonts">> :> [family |-> "serif", size |-> "10"]) @@ (<<"host">> :> [name |-> "pc"])

Configs ==
    [A |-> [hot_reload |-> TRUE, context |-> RootContext,
            sections |-> <<Section(<<"settings", "/", "astrality">>, NoOptions),
                           Section(<<"module", "/", "a">>, ModuleA),
                           Section(<<"module", "/", "off">>, ModuleOff),
                           Section(<<"module", "/", "b">>, ModuleB),
                           Section(<<"module", "/", "needy">>, ModuleNeedy)>>],
     B |-> [hot_reload |-> TRUE, context |-> RootContext,
            sections |-> <<Section(<<"module", "/", "a">>, ModuleA2)>>],
     C |-> [hot_reload |-> TRUE, context |-> RootContext,
            sections |-> <<Section(<<"module", "/", "a">>, ModuleBadImport)>>],
     D |-> [hot_reload |-> TRUE, context |-> RootContext,
            sections |-> <<Section(<<"module", "/", "a">>, ModuleBadTrigger)>>],
     E |-> [hot_reload |-> FALSE, context |-> RootContext,
            sections |-> <<Section(<<"module", "/", "a">>, ModuleA2)>>]]

\* what the root configuration file may hold: a configuration above, or
\* text that does not parse
Garbage == "garbage"
DiskContents == DOMAIN Configs \cup {Garbage}

\* the configurations the program may be started with
InitialConfigs == {"A", "E"}

\* shell predicates that fail
FailingPredicates == {<<"false">>}

\* config.py:140-165 (resolver_from_config_file raises at 73-76 and 85):
\* ok is FALSE when the file cannot be read or parsed
user_configuration(contents) ==
    IF contents = Garbage THEN [ok |-> FALSE, config |-> Configs.A]
    ELSE [ok |-> TRUE, config |-> Configs[contents]]

\* the values a clock-driven listener kind can report
ClockValues ==
    [weekday |-> {<<"mon">>, <<"tue">>}, solar |-> {<<"day">>, <<"night">>}]
Clocks == [weekday : ClockValues.weekday, solar : ClockValues.solar]

\* paths the directory watcher may report, besides the root configuration
WatcherPaths == {expand_path(<<"t1">>), expand_path(<<"w1">>), expand_path(<<"other">>)}

(***************************************************************************)
(* The state.                                                              *)
(***************************************************************************)
VARIABLES
    managers,    \* every ModuleManager constructed so far, by identity 1, 2, ...
    host,        \* the manager the host loop's reference denotes
    clock,       \* the current value of each clock-driven listener kind
    disk,        \* what the root configuration file holds
    temp_open,   \* the temporary files that exist (created and not closed)
    temp_count,  \* temporary files created so far
    log,         \* what the last call executed, in order
    last,        \* the last call: operation, manager, outcome, manager built
    startups,    \* per manager: startup batches run to completion
    exited,      \* per manager: exit() has been called
    decl,        \* Module construction: the section's options as declared
    module_config, \* Module construction: self.module_config
    pc,          \* Module construction: <<position, block index, trigger index>>
    section,     \* valid_class_section: the mapping, and the failing predicates
    verdict,     \* valid_class_section: whether it returned, and what
    query,       \* an accessor call: the module asked and the clock
    answer       \* an accessor call: what was called, and what it returned

manager_vars == <<managers, host, clock, disk, temp_open, temp_count, log, last,
                  startups, exited>>
module_vars == <<decl, module_config, pc>>
section_vars == <<section, verdict>>
query_vars == <<query, answer>>
vars == <<managers, host, clock, disk, temp_open, temp_count, log, last,
          startups, exited, decl, module_config, pc, section, verdict,
          query, answer>>

\* no accessor has been called
NoQuery == [module |-> <<>>, now |-> <<>>, remaining |-> <<>>]
NoAnswer == [op |-> "none", arg |-> <<>>, raised |-> FALSE, value |-> <<>>]

Call(op, id, path, outcome, built) ==
    [op |-> op, mgr |-> id, path |-> path, outcome |-> outcome, built |-> built]

\* the part of a manager record that is the object's state
State(m) == [m EXCEPT !.ok = TRUE]

Init ==
    /\ \E name \in InitialConfigs :
          \E m \in {ModuleManager(name, Configs[name], FailingPredicates, 0)} :
             /\ managers = <<m>>
             /\ disk = name
             /\ temp_open = Range(m.temp_files)
             /\ temp_count = Len(m.temp_files)
    /\ host = 1
    /\ clock \in Clocks
    /\ log = <<>>
    /\ last = Call("init", 1, <<>>, "ok", 0)
    /\ startups = <<0>>
    /\ exited = <<FALSE>>
    /\ decl = NoOptions
    /\ module_config = populate_event_blocks(NoOptions)
    /\ pc = <<"idle", 0, 0>>
    /\ section = [key |-> <<>>, options |-> NoOptions, failing |-> {}]
    /\ verdict = [returned |-> FALSE, value |-> FALSE]
    /\ query = NoQuery
    /\ answer = NoAnswer

\* the clock may move on while a call is running: the values a call can
\* find at its end, having started with c
ClockAfter(c) ==
    {c} \cup {d \in Clocks : \E k \in DOMAIN c : \A j \in DOMAIN c : j # k => d[j] = c[j]}

\* time passes: one listener kind reports a new value
Tick ==
    /\ \E k \in DOMAIN clock : \E v \in ClockValues[k] :
          /\ v # clock[k]
          /\ clock' = [clock EXCEPT ![k] = v]
    /\ log' = <<>>
    /\ last' = Call("tick", 0, <<>>, "ok", 0)
    /\ UNCHANGED <<managers, host, disk, temp_open, temp_count, startups, exited>>
    /\ UNCHANGED <<decl, module_config, pc, section, verdict, query, answer>>

\* the user saves a new root configuration file
EditConfig ==
    /\ \E c \in DiskContents : c # disk /\ disk' = c
    /\ log' = <<>>
    /\ last' = Call("edit", 0, <<>>, "ok", 0)
    /\ UNCHANGED <<managers, host, clock, temp_open, temp_count, startups, exited>>
    /\ UNCHANGED <<decl, module_config, pc, section, verdict, query, answer>>

\* the host loop calls finish_tasks() on its manager
HostFinishTasks ==
    /\ \E clock_end \in ClockAfter(clock) :
          \E r \in {finish_tasks(managers[host], host, clock, clock_end)} :
             /\ managers' = [managers EXCEPT ![host] = r.mgr]
             /\ log' = r.log
             /\ last' = Call("finish_tasks", host, <<>>,
                             IF r.raised THEN "raised" ELSE r.batch, 0)
             /\ startups' = [startups EXCEPT ![host] =
                                IF r.batch = "on_startup" /\ ~r.raised THEN @ + 1 ELSE @]
             /\ clock' = clock_end
    /\ UNCHANGED <<host, disk, temp_open, temp_count, exited>>
    /\ UNCHANGED <<decl, module_config, pc, section, verdict, query, answer>>

\* the host loop calls exit() on its manager
HostExit ==
    /\ \E r \in {exit(managers[host], host, clock)} :
          /\ managers' = [managers EXCEPT ![host] = r.mgr]
          /\ log' = r.log
          /\ temp_open' = temp_open \ r.closed
    /\ last' = Call("exit", host, <<>>, "ok", 0)
    /\ exited' = [exited EXCEPT ![host] = TRUE]
    /\ UNCHANGED <<host, clock, disk, temp_count, startups>>
    /\ UNCHANGED <<decl, module_config, pc, section, verdict, query, answer>>

\* module.py:653-672: the on_modified actions of a watched path
modified_watched(m, id, modified, now) ==
    LET Run(module, specified_path, compiled) ==
            IF compiled.raised THEN [log |-> compiled.log, raised |-> TRUE]
            ELSE [log |-> compiled.log
                            \o RunCommands(m, id, module.name, "on_modified",
                                   modified_commands(module, specified_path, now)),
                  raised |-> FALSE]
        Compile(module, specified_path, compile) ==
            IF ~DictHas(m.templates, specified_path) THEN [log |-> <<>>, raised |-> TRUE]
            ELSE Run(module, specified_path,
                     CompileActions(m, id, "on_modified",
                        [c \in DOMAIN compile |->
                            [name |-> module.name, action |-> compile[c]]]))
        Block(module, specified_path) ==
            Compile(module, specified_path,
                    ModifiedBlock(module.module_config, specified_path).compile)
        Watched(watched_file) ==
            Block(DictGet(m.modules, watched_file.module), watched_file.specified_path)
    IN Watched(DictGet(m.on_modified_paths, modified))

\* module.py:637: 'self = new_module_manager' binds the local name self; the
\* reference the caller holds denotes the manager it denoted before
RebindSelf(caller_reference, new_id) == caller_reference

\* a variant that takes hot reloading to be enabled whatever the setting
hot_reload_always(m) == TRUE

\* module.py:620: the hot_reload setting of the manager's configuration
hot_reload(m) == Configs[m.application_config].hot_reload

Watching(id) == id \in DOMAIN managers /\ managers[id].directory_watcher = "running"

\* the manager line 631 builds from what the file holds now
NewModuleManager ==
    ModuleManager(disk, user_configuration(disk).config, FailingPredicates, temp_count)

\* modified(path), path not the root configuration file (module.py:649-672)
ModifiedPath ==
    /\ \E id \in DOMAIN managers, path \in WatcherPaths :
          /\ Watching(id)
          /\ IF ~DictHas(managers[id].on_modified_paths, path)
             THEN /\ log' = <<>>
                  /\ last' = Call("modified", id, path, "ignored", 0)
             ELSE \E r \in {modified_watched(managers[id], id, path, clock)} :
                     /\ log' = r.log
                     /\ last' = Call("modified", id, path,
                                     IF r.raised THEN "raised" ELSE "ok", 0)
    /\ UNCHANGED <<managers, host, clock, disk, temp_open, temp_count, startups, exited>>
    /\ UNCHANGED <<decl, module_config, pc, section, verdict, query, answer>>

\* modified(root configuration file), hot reload disabled (module.py:617-622)
ModifiedRootDisabled ==
    /\ \E id \in DOMAIN managers :
          /\ Watching(id)
          /\ ~hot_reload(managers[id])
          /\ last' = Call("modified", id, RootConfigFile, "disabled", 0)
    /\ log' = <<>>
    /\ UNCHANGED <<managers, host, clock, disk, temp_open, temp_count, startups, exited>>
    /\ UNCHANGED <<decl, module_config, pc, section, verdict, query, answer>>

\* modified(root configuration file): user_configuration raises at line 625,
\* outside the try statement
ModifiedRootUnreadable ==
    /\ \E id \in DOMAIN managers :
          /\ Watching(id)
          /\ hot_reload(managers[id])
          /\ ~user_configuration(disk).ok
          /\ last' = Call("modified", id, RootConfigFile, "raised", 0)
    /\ log' = <<>>
    /\ UNCHANGED <<managers, host, clock, disk, temp_open, temp_count, startups, exited>>
    /\ UNCHANGED <<decl, module_config, pc, section, verdict, query, answer>>

\* modified(root configuration file): ModuleManager(...) raises at line 631
\* and the except clause logs the error (module.py:641-645)
ModifiedRootInvalid ==
    /\ \E id \in DOMAIN managers :
          /\ Watching(id)
          /\ hot_reload(managers[id])
          /\ user_configuration(disk).ok
          /\ ~NewModuleManager.ok
          /\ last' = Call("modified", id, RootConfigFile, "invalid", 0)
          /\ log' = <<Entry("error", id, <<>>, "reload", <<>>)>>
    /\ UNCHANGED <<managers, host, clock, disk, temp_open, temp_count, startups, exited>>
    /\ UNCHANGED <<decl, module_config, pc, section, verdict, query, answer>>

\* a variant in which the new manager starts before the old one exits
ReloadLog_startup_first(id, new_id, old, started) ==
    <<Entry("construct", new_id, <<>>, "reload", <<>>)>>
        \o started.log \o old.log
        \o IF started.raised THEN <<Entry("error", id, <<>>, "reload", <<>>)>> ELSE <<>>

\* module.py:631-645 in the order of execution: the constructor returns,
\* exit() of the old manager, finish_tasks() of the new one, and the error
\* the except clause logs if finish_tasks() raised
ReloadLog(id, new_id, old, started) ==
    <<Entry("construct", new_id, <<>>, "reload", <<>>)>>
        \o old.log \o started.log
        \o IF started.raised THEN <<Entry("error", id, <<>>, "reload", <<>>)>> ELSE <<>>

\* modified(root configuration file): the new manager is built, the old one
\* exits, the new one runs finish_tasks (module.py:631-645); an exception of
\* finish_tasks is caught and logged
ModifiedRootReload ==
    /\ Len(managers) < MaxManagers
    /\ \E id \in DOMAIN managers, clock_end \in ClockAfter(clock) :
          /\ Watching(id)
          /\ hot_reload(managers[id])
          /\ user_configuration(disk).ok
          /\ \E new \in {NewModuleManager}, old \in {exit(managers[id], id, clock)} :
             /\ new.ok
             /\ \E started \in {finish_tasks(new, Len(managers) + 1, clock, clock_end)} :
                /\ managers' = Append([managers EXCEPT ![id] = old.mgr], started.mgr)
                /\ host' = RebindSelf(host, Len(managers) + 1)
                /\ temp_open' = (temp_open \cup Range(new.temp_files)) \ old.closed
                /\ temp_count' = temp_count + Len(new.temp_files)
                /\ log' = ReloadLog(id, Len(managers) + 1, old, started)
                /\ last' = Call("modified", id, RootConfigFile,
                                IF started.raised THEN "aborted" ELSE "reloaded",
                                Len(managers) + 1)
                /\ startups' = Append(startups, IF started.raised THEN 0 ELSE 1)
                /\ exited' = Append([exited EXCEPT ![id] = TRUE], FALSE)
                /\ clock' = clock_end
    /\ UNCHANGED disk
    /\ UNCHANGED <<decl, module_config, pc, section, verdict, query, answer>>

Next ==
    \/ Tick
    \/ EditConfig
    \/ HostFinishTasks
    \/ HostExit
    \/ ModifiedPath
    \/ ModifiedRootDisabled
    \/ ModifiedRootUnreadable
    \/ ModifiedRootInvalid
    \/ ModifiedRootReload

Spec == Init /\ [][Next]_vars

(***************************************************************************)
(* Module construction, one _import_event_block call at a time.            *)
(***************************************************************************)
\* the trigger references a declaration may hold
TriggerRefs ==
    {<<"on_startup">>, <<"on_event">>, <<"on_exit">>, <<"on_modified.", "p1">>}

TriggerLists == UNION {[1..k -> TriggerRefs] : k \in 0..MaxTriggers}

\* the own actions of a block: its commands name the block
OwnCommands ==
    [on_startup |-> <<<<"s1">>, <<"s2", "{", "event", "}">>>>,
     on_event |-> <<<<"e1">>, <<"e2">>>>,
     on_exit |-> <<<<"x1">>, <<"x2">>>>]
OwnCompile ==
    [on_startup |-> CompileSpec(<<"ts">>, None),
     on_event |-> CompileSpec(<<"te">>, <<"oe">>),
     on_exit |-> CompileSpec(<<"tx">>, None)]
OwnImport ==
    [on_startup |-> ImportSpec(<<"colors">>, None, None),
     on_event |-> ImportSpec(<<"colors">>, <<"fonts">>, None),
     on_exit |-> ImportSpec(<<"colors">>, <<"fonts">>, <<"exit-fonts">>)]

Shapes == {"absent", "one", "list"}

\* a block as the user writes it: nothing, single items, or lists
DeclaredBlock(name, shape, triggers) ==
    LET trigger == IF triggers = <<>> THEN Absent
                   ELSE IF Len(triggers) = 1 /\ shape = "one" THEN One(triggers[1])
                   ELSE List(triggers)
    IN IF shape = "absent" /\ triggers = <<>> THEN Absent
       ELSE IF shape = "absent" THEN One([NoActions EXCEPT !.trigger = trigger])
       ELSE IF shape = "one"
            THEN One([import_context |-> One(OwnImport[name]),
                      compile |-> One(OwnCompile[name]),
                      run |-> One(OwnCommands[name][1]),
                      trigger |-> trigger])
            ELSE One([import_context |-> Absent,
                      compile |-> List(<<OwnCompile[name]>>),
                      run |-> List(OwnCommands[name]),
                      trigger |-> trigger])

DeclaredModified ==
    One(<<[path |-> <<"p1">>,
           block |-> [NoActions EXCEPT
                !.run = One(<<"m1">>),
                !.compile = One(CompileSpec(<<"p1">>, None)),
                !.trigger = One(<<"on_startup">>)]]>>)

ModuleInit ==
    /\ \E s1 \in Shapes, s2 \in Shapes, s3 \in Shapes \ {"list"},
          t1 \in TriggerLists, t2 \in TriggerLists, t3 \in TriggerLists,
          watching \in BOOLEAN :
          /\ Len(t1) + Len(t2) + Len(t3) <= MaxTriggers
          /\ decl = [NoOptions EXCEPT
                        !.on_startup = DeclaredBlock("on_startup", s1, t1),
                        !.on_event = DeclaredBlock("on_event", s2, t2),
                        !.on_exit = DeclaredBlock("on_exit", s3, t3),
                        !.on_modified = IF watching THEN DeclaredModified ELSE Absent]
    /\ module_config = populate_event_blocks(NoOptions)
    /\ pc = <<"declared", 0, 0>>
    /\ managers = <<>> /\ host = 0 /\ clock = [weekday |-> <<"mon">>, solar |-> <<"day">>]
    /\ disk = Garbage /\ temp_open = {} /\ temp_count = 0 /\ log = <<>>
    /\ last = Call("init", 0, <<>>, "ok", 0) /\ startups = <<>> /\ exited = <<>>
    /\ section = [key |-> <<>>, options |-> NoOptions, failing |-> {}]
    /\ verdict = [returned |-> FALSE, value |-> FALSE]
    /\ query = NoQuery
    /\ answer = NoAnswer

\* module.py:74: populate_event_blocks()
Populate ==
    /\ pc[1] = "declared"
    /\ module_config' = populate_event_blocks(decl)
    /\ pc' = <<"importing", 1, 1>>
    /\ UNCHANGED <<decl, section, verdict>>
    /\ UNCHANGED manager_vars
    /\ UNCHANGED query_vars

\* the trigger list the loop at module.py:140 is iterating
CurrentTriggers == module_config[EventBlockNames[pc[2]]].trigger

\* a variant of the loop that handles a trigger and stays at it
ImportTrigger_no_progress ==
    /\ pc[1] = "importing" /\ pc[2] <= Len(EventBlockNames)
    /\ pc[3] <= Len(CurrentTriggers)
    /\ ~ImportRaises(module_config, CurrentTriggers[pc[3]])
    /\ UNCHANGED <<decl, module_config, pc, section, verdict>>
    /\ UNCHANGED manager_vars
    /\ UNCHANGED query_vars

\* module.py:141-144: one call of _import_event_block that returns
ImportTrigger ==
    /\ pc[1] = "importing" /\ pc[2] <= Len(EventBlockNames)
    /\ pc[3] <= Len(CurrentTriggers)
    /\ ~ImportRaises(module_config, CurrentTriggers[pc[3]])
    /\ module_config' = import_event_block(module_config, CurrentTriggers[pc[3]],
                                           EventBlockNames[pc[2]])
    /\ pc' = <<"importing", pc[2], pc[3] + 1>>
    /\ UNCHANGED <<decl, section, verdict>>
    /\ UNCHANGED manager_vars
    /\ UNCHANGED query_vars

\* module.py:154-158: the reference names no block, KeyError leaves __init__
ImportTriggerRaises ==
    /\ pc[1] = "importing" /\ pc[2] <= Len(EventBlockNames)
    /\ pc[3] <= Len(CurrentTriggers)
    /\ ImportRaises(module_config, CurrentTriggers[pc[3]])
    /\ pc' = <<"raised", pc[2], pc[3]>>
    /\ UNCHANGED <<decl, module_config, section, verdict>>
    /\ UNCHANGED manager_vars
    /\ UNCHANGED query_vars

\* module.py:134: the next event block of the tuple
NextEventBlock ==
    /\ pc[1] = "importing" /\ pc[2] <= Len(EventBlockNames)
    /\ pc[3] > Len(CurrentTriggers)
    /\ pc' = <<"importing", pc[2] + 1, 1>>
    /\ UNCHANGED <<decl, module_config, section, verdict>>
    /\ UNCHANGED manager_vars
    /\ UNCHANGED query_vars

\* module.py:132-135: the last element of the tuple is the dict_values view
\* of on_modified, 'trigger' is not in it, and the loop ends
SkipModifiedBlocks ==
    /\ pc[1] = "importing" /\ pc[2] = Len(EventBlockNames) + 1
    /\ pc' = <<"done", 0, 0>>
    /\ UNCHANGED <<decl, module_config, section, verdict>>
    /\ UNCHANGED manager_vars
    /\ UNCHANGED query_vars

\* module.py:73 and 90-98: self.module_config is the mapping the caller
\* passed, and populate_event_blocks assigns the populated blocks into it;
\* update() copies references, so the lists of the blocks are the lists
\* that the trigger resolution extends.  This is the configuration mapping
\* as it is after a construction that produced mc.
ConfiguredAgain(mc) ==
    LET AsDeclared(block) == [a \in ActionNames |-> List(block[a])]
    IN [NoOptions EXCEPT
          !.on_startup = One(AsDeclared(mc.on_startup)),
          !.on_event = One(AsDeclared(mc.on_event)),
          !.on_exit = One(AsDeclared(mc.on_exit)),
          !.on_modified = One([i \in DOMAIN mc.on_modified |->
                                 [path |-> mc.on_modified[i].path,
                                  block |-> AsDeclared(mc.on_modified[i].block)]])]

\* Module(...) is called a second time with the same configuration mapping
ConstructAgain ==
    /\ pc[1] = "done"
    /\ \E r \in {import_trigger_actions(populate_event_blocks(ConfiguredAgain(module_config)))} :
          /\ module_config' = r.mc
          /\ pc' = <<IF r.ok THEN "again" ELSE "raised again", 0, 0>>
    /\ UNCHANGED <<decl, section, verdict>>
    /\ UNCHANGED manager_vars
    /\ UNCHANGED query_vars

ModuleNext ==
    \/ Populate
    \/ ImportTrigger
    \/ ImportTriggerRaises
    \/ NextEventBlock
    \/ SkipModifiedBlocks
    \/ ConstructAgain

ModuleSpec == ModuleInit /\ [][ModuleNext]_vars

\* a step of the constructor that is running
ConstructorStep ==
    Populate \/ ImportTrigger \/ ImportTriggerRaises \/ NextEventBlock \/ SkipModifiedBlocks

\* the interpreter goes on executing a constructor that has a next step;
\* whether a second construction follows is the caller's choice
ModuleFairSpec == ModuleSpec /\ WF_vars(ConstructorStep)

\* the steps above compute what Module(...) computes in one go
StepwiseAgrees ==
    /\ pc[1] = "done" =>
          /\ import_trigger_actions(populate_event_blocks(decl)).ok
          /\ import_trigger_actions(populate_event_blocks(decl)).mc = module_config
    /\ pc[1] = "raised" => ~import_trigger_actions(populate_event_blocks(decl)).ok

(***************************************************************************)
(* valid_class_section on one-item mappings.                               *)
(***************************************************************************)
SectionKeys ==
    {<<"module", "/", "a">>, <<"not-module", "/", "a">>, <<"module">>,
     <<"context", "/", "module">>, <<"module", "s", "/", "a">>}

Predicates == {<<"p1">>, <<"p2">>}

RequiresLists == UNION {[1..k -> Predicates] : k \in 0..MaxRequires}

SectionInit ==
    /\ \E key \in SectionKeys, failing \in SUBSET Predicates :
          \/ \E enabled \in {Absent, One(TRUE), One(FALSE)} :
                \/ section = [key |-> key, failing |-> failing,
                              options |-> [NoOptions EXCEPT !.enabled = enabled]]
                \/ \E r \in Predicates \cup {<<>>} :
                      section = [key |-> key, failing |-> failing,
                                 options |-> [NoOptions EXCEPT !.enabled = enabled,
                                                               !.requires = One(r)]]
                \/ \E rs \in RequiresLists :
                      section = [key |-> key, failing |-> failing,
                                 options |-> [NoOptions EXCEPT !.enabled = enabled,
                                                               !.requires = List(rs)]]
    /\ verdict = [returned |-> FALSE, value |-> FALSE]
    /\ query = NoQuery
    /\ answer = NoAnswer
    /\ decl = NoOptions
    /\ module_config = populate_event_blocks(NoOptions)
    /\ pc = <<"idle", 0, 0>>
    /\ managers = <<>> /\ host = 0 /\ clock = [weekday |-> <<"mon">>, solar |-> <<"day">>]
    /\ disk = Garbage /\ temp_open = {} /\ temp_count = 0 /\ log = <<>>
    /\ last = Call("init", 0, <<>>, "ok", 0) /\ startups = <<>> /\ exited = <<>>

\* module.py:341: valid_class_section(section={key: options}, ...)
Validate ==
    /\ ~verdict.returned
    /\ verdict' = [returned |-> TRUE,
                   value |-> valid_class_section(section.key, section.options,
                                                 section.failing)]
    /\ UNCHANGED <<section, decl, module_config, pc>>
    /\ UNCHANGED manager_vars
    /\ UNCHANGED query_vars

SectionSpec == SectionInit /\ [][Validate]_vars

(***************************************************************************)
(* Properties of the run loop and of the watcher callback (Spec).          *)
(* In an action formula the unprimed variables are the state before the    *)
(* call that last' names, and log' is what that call executed.             *)
(***************************************************************************)
\* the positions of a log that hold actions of one manager for one trigger
BatchEntries(entries, id, trigger) ==
    {i \in DOMAIN entries : entries[i].mgr = id /\ entries[i].trigger = trigger}

\* the arguments of the entries of one kind a module contributed, in log order
RECURSIVE ArgsOf(_, _, _, _)
ArgsOf(entries, acts, name, trigger) ==
    IF entries = <<>> THEN <<>>
    ELSE (IF Head(entries).act \in acts /\ Head(entries).module = name
             /\ Head(entries).trigger = trigger
          THEN <<Head(entries).arg>> ELSE <<>>)
         \o ArgsOf(Tail(entries), acts, name, trigger)

CompileActs == {"compile", "compile_error"}

\* the batch of a trigger ran in full: every module's compile actions and
\* every module's commands of that trigger are in the log
FullBatch(entries, m, trigger) ==
    \A i \in DOMAIN m.modules :
        LET name == m.modules[i].key
            block == m.modules[i].value.module_config[trigger]
        IN /\ Len(ArgsOf(entries, {"run"}, name, trigger)) = Len(block.run)
           /\ Len(ArgsOf(entries, CompileActs, name, trigger)) = Len(block.compile)
           /\ Len(ArgsOf(entries, {"import"}, name, trigger)) = Len(block.import_context)

\* C1: the startup batch of a manager is executed exactly once, by its first
\* finish_tasks() call: a call on a manager that has not started runs the
\* whole on_startup batch and marks startup done, startup is never undone, a
\* manager whose startup is done never executes an on_startup action again,
\* and the second of two consecutive calls with no event change in between
\* executes nothing.
C1_StartupExactlyOnce ==
    [][/\ \A id \in DOMAIN managers' : startups'[id] <= 1
       /\ \A id \in DOMAIN managers :
             managers[id].startup_done =>
                /\ managers'[id].startup_done
                /\ BatchEntries(log', id, "on_startup") = {}
       /\ last'.op = "finish_tasks" =>
             /\ ~managers[last'.mgr].startup_done /\ last'.outcome # "raised" =>
                   /\ FullBatch(log', managers[last'.mgr], "on_startup")
                   /\ managers'[last'.mgr].startup_done
                   /\ startups'[last'.mgr] = 1
             /\ /\ last.op = "finish_tasks" /\ last.mgr = last'.mgr
                /\ last.outcome # "raised"
                /\ module_events(managers[last'.mgr], clock)
                      = managers[last'.mgr].last_module_events
                => log' = <<>>
      ]_vars

\* a second consecutive finish_tasks() call on a started manager ran nothing
C1_Witness ==
    /\ last.op = "finish_tasks" /\ last.outcome = "none" /\ log = <<>>
    /\ startups[last.mgr] = 1 /\ managers[last.mgr].startup_done
    /\ module_events(managers[last.mgr], clock) = managers[last.mgr].last_module_events

\* C2: for a manager whose startup is done, finish_tasks() executes the
\* on_event batch (the on_event imports, compilations and commands of every
\* module, also of modules whose own event did not change) if and only if the
\* snapshot of module events differs from the stored baseline, and the
\* baseline is then the current snapshot; if the snapshot equals the
\* baseline the call executes nothing and changes no state.
C2_EventBatchIffChanged ==
    [][last'.op = "finish_tasks" /\ managers[last'.mgr].startup_done =>
          LET id == last'.mgr
              changed == module_events(managers[id], clock)
                            # managers[id].last_module_events
          IN /\ changed <=> last'.outcome \in {"on_event", "raised"}
             /\ BatchEntries(log', id, "on_event") # {} => changed
             /\ changed /\ last'.outcome # "raised" =>
                   /\ FullBatch(log', managers[id], "on_event")
                   /\ managers'[id].last_module_events
                         = module_events(managers'[id], clock')
             /\ ~changed =>
                   /\ log' = <<>>
                   /\ managers' = managers /\ host' = host
                   /\ temp_open' = temp_open /\ temp_count' = temp_count
                   /\ exited' = exited /\ disk' = disk
      ]_vars

\* an on_event batch ran after one listener's event changed, and it holds a
\* command of module b, whose static listener never changes
C2_Witness ==
    /\ last.op = "finish_tasks" /\ last.outcome = "on_event"
    /\ managers[last.mgr].application_config = "A"
    /\ \E i \in DOMAIN log :
          log[i].act = "run" /\ log[i].module = <<"b">> /\ log[i].trigger = "on_event"
    /\ \E i \in DOMAIN log :
          log[i].act = "run" /\ log[i].module = <<"a">> /\ log[i].trigger = "on_event"
    /\ managers[last.mgr].last_module_events = module_events(managers[last.mgr], clock)

\* the phase of a batch an entry belongs to
Phase(entry) ==
    CASE entry.act = "import" -> 1
      [] entry.act \in CompileActs -> 2
      [] entry.act = "run" -> 3
      [] OTHER -> 4

\* the position of a module in the manager's construction order
ModuleIndex(m, name) == CHOOSE i \in DOMAIN m.modules : m.modules[i].key = name

C4_CallerHoldsNewManager ==
    last.op = "modified" /\ last.outcome = "reloaded" /\ last.mgr = host
        => host = last.built

\* the reload cannot go on: the file does not parse, or the manager cannot
\* be constructed from it
ReloadFails ==
    IF ~user_configuration(disk).ok THEN TRUE ELSE ~NewModuleManager.ok

\* C5: with hot reload enabled, when the modified root configuration file
\* cannot be parsed or the new manager cannot be constructed, modified()
\* returns without raising, an error is logged, and the old manager is as it
\* was: nothing exited, registries, context and snapshot unchanged.
C5_FailedReloadKeepsOld ==
    [][/\ last'.op = "modified" /\ last'.path = RootConfigFile
       /\ hot_reload(managers[last'.mgr])
       /\ ReloadFails
       => /\ last'.outcome # "raised"
          /\ \E i \in DOMAIN log' : log'[i].act = "error"
          /\ managers' = managers /\ host' = host
          /\ temp_open' = temp_open /\ exited' = exited
      ]_vars

\* C6: a hot reload is all-or-nothing: when modified(root file) is over,
\* either a new manager was built, the old one has exited and the new one is
\* running, or the old manager is exactly as before the call (not exited,
\* temporary files not released).
C6_ReloadAllOrNothing ==
    [][last'.op = "modified" /\ last'.path = RootConfigFile =>
          \/ /\ Len(managers') = Len(managers) + 1
             /\ exited'[last'.mgr]
             /\ managers'[last'.mgr].directory_watcher = "stopped"
             /\ managers'[Len(managers')].startup_done
             /\ managers'[Len(managers')].directory_watcher = "running"
          \/ /\ managers'[last'.mgr] = managers[last'.mgr]
             /\ exited'[last'.mgr] = exited[last'.mgr]
             /\ Range(managers[last'.mgr].temp_files) \cap temp_open
                   \subseteq temp_open'
             /\ BatchEntries(log', last'.mgr, "on_exit") = {}
      ]_vars

\* C7: modified(path) for every path of the watched-path registry, whether
\* or not the path is also a template, compiles the compile actions of its
\* on_modified block and runs the block's commands.
C7_EveryWatchedPathActs ==
    [][/\ last'.op = "modified" /\ last'.path # RootConfigFile
       /\ DictHas(managers[last'.mgr].on_modified_paths, last'.path)
       => LET m == managers[last'.mgr]
              watched_file == DictGet(m.on_modified_paths, last'.path)
              block == ModifiedBlock(DictGet(m.modules, watched_file.module).module_config,
                                     watched_file.specified_path)
          IN /\ last'.outcome = "ok"
             /\ Len(ArgsOf(log', {"run"}, watched_file.module, "on_modified"))
                   = Len(block.run)
             /\ Len(ArgsOf(log', CompileActs, watched_file.module, "on_modified"))
                   = Len(block.compile)
      ]_vars

(***************************************************************************)
(* Properties of trigger resolution (ModuleSpec).                          *)
(***************************************************************************)
Categories == {"run", "import_context", "compile"}

\* the blocks as declared: the lists after normalisation, before any import
Declared == populate_event_blocks(decl)

BlockIndex(name) == CHOOSE i \in DOMAIN EventBlockNames : EventBlockNames[i] = name

\* the declared list of the block a reference names
DeclaredOf(ref, category) ==
    IF ref[1] = "on_modified." THEN ModifiedBlock(Declared, Tail(ref))[category]
    ELSE Declared[ref[1]][category]

\* own declared list, then, trigger by trigger, the list of the referenced
\* block as it stands when that trigger is resolved: the declared list of an
\* on_modified entry or of a block resolved later, the resolved list of a
\* block resolved earlier, the list built so far for a reference to itself
RECURSIVE Concatenated(_, _, _)
Concatenated(name, category, n) ==
    IF n = 0 THEN Declared[name][category]
    ELSE Concatenated(name, category, n - 1)
         \o (IF Declared[name].trigger[n][1] = name
             THEN Concatenated(name, category, n - 1)
             ELSE IF Declared[name].trigger[n][1] \in Range(EventBlockNames)
                     /\ BlockIndex(Declared[name].trigger[n][1]) < BlockIndex(name)
                  THEN Concatenated(Declared[name].trigger[n][1], category,
                                    Len(Declared[Declared[name].trigger[n][1]].trigger))
                  ELSE DeclaredOf(Declared[name].trigger[n], category))

C9_SingleLevel ==
    pc[1] = "done" =>
        \A b \in DOMAIN EventBlockNames, category \in Categories :
            Range(module_config[EventBlockNames[b]][category])
                \subseteq Range(Declared[EventBlockNames[b]][category])
                    \cup UNION {Range(DeclaredOf(ref, category)) :
                                  ref \in Range(Declared[EventBlockNames[b]].trigger)}

(***************************************************************************)
(* Properties of valid_class_section (SectionSpec).                        *)
(***************************************************************************)
\* the predicates a section declares under 'requires'
DeclaredRequires(options) ==
    CASE options.requires.t = "absent" -> {}
      [] options.requires.t = "one" -> {options.requires.v} \ {<<>>}
      [] OTHER -> Range(options.requires.v)

\* C10: valid_class_section on a one-item mapping returns true if and only
\* if the first '/'-separated component of the key is 'module', enabled is
\* truthy (true when absent), and every declared requires predicate passes.
C10_ValidIffAllHold ==
    verdict.returned =>
        (verdict.value <=>
            /\ section.key[1] = "module"
            /\ Len(section.key) = 1 \/ section.key[2] = "/"
            /\ section.options.enabled \in {Absent, One(TRUE)}
            /\ DeclaredRequires(section.options) \cap section.failing = {})

\* a module section with two requirements, the second of which fails, was
\* rejected, and so the verdict is known
C10_Witness ==
    /\ verdict.returned /\ ~verdict.value
    /\ section.key = <<"module", "/", "a">>
    /\ section.options.enabled = Absent
    /\ section.options.requires = List(<<<<"p1">>, <<"p2">>>>)
    /\ section.failing = {<<"p2">>}

(***************************************************************************)
(* time_until_next_event on the manager of each valid configuration.       *)
(***************************************************************************)
ListenerTypes == {"static", "weekday", "solar"}

\* the seconds a listener may report
Seconds == {5, 10, 20}

TimerInit ==
    /\ \E name \in DOMAIN Configs :
          \E m \in {ModuleManager(name, Configs[name], FailingPredicates, 0)} :
             /\ m.ok
             /\ managers = <<m>>
             /\ disk = name
             /\ temp_open = Range(m.temp_files)
             /\ temp_count = Len(m.temp_files)
    /\ \E remaining \in [ListenerTypes -> Seconds] :
          query = [NoQuery EXCEPT !.remaining = remaining]
    /\ answer = NoAnswer
    /\ host = 1
    /\ clock = [weekday |-> <<"mon">>, solar |-> <<"day">>]
    /\ log = <<>>
    /\ last = Call("init", 1, <<>>, "ok", 0)
    /\ startups = <<0>>
    /\ exited = <<FALSE>>
    /\ decl = NoOptions
    /\ module_config = populate_event_blocks(NoOptions)
    /\ pc = <<"idle", 0, 0>>
    /\ section = [key |-> <<>>, options |-> NoOptions, failing |-> {}]
    /\ verdict = [returned |-> FALSE, value |-> FALSE]

\* the host loop asks how long it may sleep
HostTimeUntilNextEvent ==
    /\ answer.op = "none"
    /\ \E r \in {time_until_next_event(managers[host], query.remaining)} :
          answer' = [op |-> "time_until_next_event", arg |-> <<>>,
                     raised |-> r.raised, value |-> r.value]
    /\ UNCHANGED query
    /\ UNCHANGED manager_vars
    /\ UNCHANGED <<decl, module_config, pc, section, verdict>>

TimerSpec == TimerInit /\ [][HostTimeUntilNextEvent]_vars

\* the seconds each module's listener reports
ModuleTimes(m, remaining) ==
    {remaining[m.modules[i].value.event_listener.type] : i \in DOMAIN m.modules}

\* C11: for a manager with at least one module, time_until_next_event()
\* returns the minimum of the values its modules' listeners report: it is
\* one of those values and it is not greater than any of them.
C11_MinimumOverModules ==
    answer.op = "time_until_next_event" /\ managers[host].modules # <<>> =>
        /\ ~answer.raised
        /\ answer.value \in ModuleTimes(managers[host], query.remaining)
        /\ \A t \in ModuleTimes(managers[host], query.remaining) : answer.value <= t

\* two modules, the first reporting 10 seconds and the second 5: the answer is 5
C11_Witness ==
    /\ answer.op = "time_until_next_event"
    /\ Len(managers[host].modules) = 2
    /\ query.remaining[managers[host].modules[1].value.event_listener.type] = 10
    /\ query.remaining[managers[host].modules[2].value.event_listener.type] = 5
    /\ answer.value = 5

(***************************************************************************)
(* Further properties of the run loop (Spec).                              *)
(***************************************************************************)
\* the batch the next finish_tasks() call of a manager executes, if any
DueTrigger(m) == IF m.startup_done THEN "on_event" ELSE "on_startup"

\* that batch compiles a registered template whose source file is missing
MissingTemplateDue(m) ==
    \E i \in DOMAIN m.modules :
        \E c \in DOMAIN m.modules[i].value.module_config[DueTrigger(m)].compile :
            LET template == m.modules[i].value.module_config[DueTrigger(m)].compile[c].template
            IN /\ DictHas(m.templates, template)
               /\ DictGet(m.templates, template).source \notin ExistingTemplates

\* C12: when the compiler reports 'template not found' for one template of
\* a batch, the error is logged and not propagated: the call does not raise,
\* every compilation scheduled in the batch is attempted and the commands of
\* the batch are run; the entry is an error exactly when the source file
\* does not exist.
C12_MissingTemplateIsolated ==
    [][/\ last'.op = "finish_tasks"
       /\ last'.outcome # "none"
       /\ MissingTemplateDue(managers[last'.mgr])
       => /\ last'.outcome = DueTrigger(managers[last'.mgr])
          /\ \E i \in DOMAIN log' : log'[i].act = "compile_error"
          /\ FullBatch(log', managers[last'.mgr], last'.outcome)
          /\ \A i \in DOMAIN log' :
                log'[i].act \in CompileActs =>
                   (log'[i].act = "compile_error" <=> log'[i].arg[1] \notin ExistingTemplates)
      ]_vars

\* a batch in which a compilation follows the failed one, and commands
\* follow both
C12_Witness ==
    /\ last.op = "finish_tasks"
    /\ \E i, j, k \in DOMAIN log :
          /\ i < j /\ j < k
          /\ log[i].act = "compile_error" /\ log[j].act = "compile" /\ log[k].act = "run"
          /\ log[i].trigger = log[j].trigger /\ log[j].trigger = log[k].trigger

\* the on_exit commands of a module as they reach the shell: '{event}' and
\* the template placeholders replaced
ExitCommandsOf(m, module, now) ==
    [k \in DOMAIN module.module_config.on_exit.run |->
        <<manager_interpolate_string(m,
            Replace(module.module_config.on_exit.run[k], EventPlaceholder,
                    Event(module.event_listener, now)))>>]

\* C13: exit() called in any run-loop state, also before startup and after
\* an earlier exit, runs every module's interpolated exit commands in module
\* order and nothing else, releases every temporary file of the manager and
\* leaves the watcher stopped.
C13_ExitInAnyState ==
    [][last'.op = "exit" =>
          /\ \A i \in DOMAIN log' :
                log'[i].act = "run" /\ log'[i].trigger = "on_exit" /\ log'[i].mgr = last'.mgr
          /\ \A i, j \in DOMAIN log' :
                i < j => ModuleIndex(managers[last'.mgr], log'[i].module)
                            <= ModuleIndex(managers[last'.mgr], log'[j].module)
          /\ \A n \in DOMAIN managers[last'.mgr].modules :
                ArgsOf(log', {"run"}, managers[last'.mgr].modules[n].key, "on_exit")
                   = ExitCommandsOf(managers[last'.mgr],
                                    managers[last'.mgr].modules[n].value, clock)
          /\ Range(managers[last'.mgr].temp_files) \cap temp_open' = {}
          /\ managers'[last'.mgr].directory_watcher = "stopped"
          /\ exited'[last'.mgr]
      ]_vars

\* exit() ran on a manager that never started: its exit command ran with the
\* event in place, and its temporary file is gone
C13_Witness ==
    /\ last.op = "exit"
    /\ ~managers[last.mgr].startup_done
    /\ startups[last.mgr] = 0
    /\ managers[last.mgr].temp_files # <<>>
    /\ Range(managers[last.mgr].temp_files) \cap temp_open = {}
    /\ \E i \in DOMAIN log : log[i].arg = <<<<"bye", "mon">>>>
    /\ managers[last.mgr].directory_watcher = "stopped"

\* some module's current event is not the one the baseline holds
SnapshotDiffers(m, now) ==
    \E i \in DOMAIN m.modules :
        Event(m.modules[i].value.event_listener, now)
            # m.last_module_events[m.modules[i].key]

\* C14: in every reachable state has_unfinished_tasks() is true exactly when
\* the manager has not started or the current snapshot of module events
\* differs from the baseline, which is exactly when a finish_tasks() call
\* made in that state would execute a batch; right after a finish_tasks()
\* call that returned, no listener value having changed meanwhile, it is
\* false.
C14_UnfinishedIffBatchDue ==
    [][/\ \A id \in DOMAIN managers' :
             /\ has_unfinished_tasks(managers'[id], clock')
                   <=> (IF ~managers'[id].startup_done THEN TRUE
                        ELSE SnapshotDiffers(managers'[id], clock'))
             /\ has_unfinished_tasks(managers'[id], clock')
                   <=> finish_tasks(managers'[id], id, clock', clock').batch # "none"
       /\ last'.op = "finish_tasks" =>
             /\ last'.outcome # "none" <=> has_unfinished_tasks(managers[last'.mgr], clock)
             /\ last'.outcome # "raised" /\ clock' = clock =>
                   ~has_unfinished_tasks(managers'[last'.mgr], clock')
      ]_vars

\* a started manager one of whose listeners has moved on: tasks are due
C14_Witness ==
    /\ last.op = "tick"
    /\ managers[host].startup_done
    /\ has_unfinished_tasks(managers[host], clock)
    /\ SnapshotDiffers(managers[host], clock)

(***************************************************************************)
(* The accessors of one Module, each called once on a constructed module.  *)
(***************************************************************************)
AccessorListeners ==
    {Absent, One(StaticListener(<<"now">>)),
     One(ClockListener("weekday")), One(ClockListener("solar"))}

\* a block as declared; its commands start with the block's name
AccessorBlock(name, shape, triggers) ==
    LET trigger == IF triggers = <<>> THEN Absent ELSE List(triggers)
    IN IF shape = "absent" /\ triggers = <<>> THEN Absent
       ELSE IF shape = "absent" THEN One([NoActions EXCEPT !.trigger = trigger])
       ELSE IF shape = "one"
            THEN One([NoActions EXCEPT
                    !.run = One(<<name, "echo", "{", "event", "}">>),
                    !.import_context = One(ImportSpec(<<name, "-colors">>, None, None)),
                    !.trigger = trigger])
            ELSE One([NoActions EXCEPT
                    !.run = List(<<<<name, "{", "event", "}", "and", "{", "event", "}">>,
                                   <<name, "plain">>>>),
                    !.import_context = List(<<
                        ImportSpec(<<name, "-", "{", "event", "}">>,
                                   <<"sec-", "{", "event", "}">>, None),
                        ImportSpec(<<"colors">>, <<"fonts">>, <<"to-", "{", "event", "}">>),
                        ImportSpec(<<"colors">>, None, <<"unused">>)>>),
                    !.trigger = trigger])

AccessorModified ==
    One(<<[path |-> <<"p1">>,
           block |-> [NoActions EXCEPT
                !.run = List(<<<<"m", "{", "event", "}">>, <<"m2">>>>)]]>>)

AccessorInit ==
    /\ \E s1 \in Shapes, s2 \in Shapes, s3 \in Shapes, listener \in AccessorListeners,
          chained \in BOOLEAN, watching \in BOOLEAN, now \in Clocks :
          \E module \in {Module(<<"module", "/", "m">>,
                [NoOptions EXCEPT
                    !.event_listener = listener,
                    !.on_startup = AccessorBlock("on_startup", s1, <<>>),
                    !.on_event = AccessorBlock("on_event", s2, <<>>),
                    !.on_exit = AccessorBlock("on_exit", s3,
                                    IF chained THEN <<<<"on_startup">>>> ELSE <<>>),
                    !.on_modified = IF watching THEN AccessorModified ELSE Absent])} :
             /\ module.ok
             /\ query = [module |-> module, now |-> now, remaining |-> <<>>]
    /\ answer = NoAnswer
    /\ managers = <<>> /\ host = 0 /\ clock = [weekday |-> <<"mon">>, solar |-> <<"day">>]
    /\ disk = Garbage /\ temp_open = {} /\ temp_count = 0 /\ log = <<>>
    /\ last = Call("init", 0, <<>>, "ok", 0) /\ startups = <<>> /\ exited = <<>>
    /\ decl = NoOptions
    /\ module_config = populate_event_blocks(NoOptions)
    /\ pc = <<"idle", 0, 0>>
    /\ section = [key |-> <<>>, options |-> NoOptions, failing |-> {}]
    /\ verdict = [returned |-> FALSE, value |-> FALSE]

Returned(op, arg, value) == [op |-> op, arg |-> arg, raised |-> FALSE, value |-> value]
Raised(op, arg) == [op |-> op, arg |-> arg, raised |-> TRUE, value |-> <<>>]

CallStartupCommands ==
    /\ answer.op = "none"
    /\ answer' = Returned("startup_commands", <<>>,
                          startup_commands(query.module, query.now))
    /\ UNCHANGED query
    /\ UNCHANGED manager_vars
    /\ UNCHANGED <<decl, module_config, pc, section, verdict>>

CallOnEventCommands ==
    /\ answer.op = "none"
    /\ answer' = Returned("on_event_commands", <<>>,
                          on_event_commands(query.module, query.now))
    /\ UNCHANGED query
    /\ UNCHANGED manager_vars
    /\ UNCHANGED <<decl, module_config, pc, section, verdict>>

CallExitCommands ==
    /\ answer.op = "none"
    /\ answer' = Returned("exit_commands", <<>>,
                          exit_commands(query.module, query.now))
    /\ UNCHANGED query
    /\ UNCHANGED manager_vars
    /\ UNCHANGED <<decl, module_config, pc, section, verdict>>

\* module.py:206: ['on_modified'][template_name] of a path that is not
\* watched raises KeyError
CallModifiedCommands ==
    /\ answer.op = "none"
    /\ \E template_name \in {<<"p1">>} :
          answer' = IF HasModified(query.module.module_config, template_name)
                    THEN Returned("modified_commands", template_name,
                            modified_commands(query.module, template_name, query.now))
                    ELSE Raised("modified_commands", template_name)
    /\ UNCHANGED query
    /\ UNCHANGED manager_vars
    /\ UNCHANGED <<decl, module_config, pc, section, verdict>>

CallContextSectionImports ==
    /\ answer.op = "none"
    /\ \E trigger \in Range(EventBlockNames) :
          \E r \in {context_section_imports(query.module, trigger, query.now)} :
             answer' = IF r.ok THEN Returned("context_section_imports", trigger, r.imports)
                       ELSE Raised("context_section_imports", trigger)
    /\ UNCHANGED query
    /\ UNCHANGED manager_vars
    /\ UNCHANGED <<decl, module_config, pc, section, verdict>>

AccessorNext ==
    \/ CallStartupCommands
    \/ CallOnEventCommands
    \/ CallExitCommands
    \/ CallModifiedCommands
    \/ CallContextSectionImports

AccessorSpec == AccessorInit /\ [][AccessorNext]_vars

(***************************************************************************)
(* Properties of the accessors (AccessorSpec).                             *)
(***************************************************************************)
CommandAccessors ==
    {"startup_commands", "on_event_commands", "exit_commands", "modified_commands"}

\* the run list of the block an accessor is about, as it stands after
\* construction
RunListOf(module, op, arg) ==
    CASE op = "startup_commands" -> module.module_config.on_startup.run
      [] op = "on_event_commands" -> module.module_config.on_event.run
      [] op = "exit_commands" -> module.module_config.on_exit.run
      [] OTHER -> ModifiedBlock(module.module_config, arg).run

HasPlaceholder(string) ==
    \E i \in 1..(Len(string) - 2) : SubSeq(string, i, i + 2) = EventPlaceholder

\* C15: each command accessor returns the block's effective run list, in
\* order, with every occurrence of '{event}' in every command replaced by
\* the listener's event value at the time of the call; a block without run
\* yields the empty tuple; 'echo {event}' under a static listener of value
\* 'now' yields ('echo now',).
C15_CommandsInterpolated ==
    answer.op \in CommandAccessors /\ ~answer.raised =>
        /\ Len(answer.value) = Len(RunListOf(query.module, answer.op, answer.arg))
        /\ \A k \in DOMAIN answer.value :
              /\ answer.value[k]
                    = Replace(RunListOf(query.module, answer.op, answer.arg)[k],
                              EventPlaceholder,
                              Event(query.module.event_listener, query.now))
              /\ ~HasPlaceholder(answer.value[k])
        /\ RunListOf(query.module, answer.op, answer.arg) = <<>> => answer.value = <<>>
        /\ /\ answer.op = "startup_commands"
           /\ query.module.module_config.on_startup.run
                 = <<<<"on_startup", "echo", "{", "event", "}">>>>
           /\ query.module.event_listener = StaticListener(<<"now">>)
           => answer.value = <<<<"on_startup", "echo", "now">>>>

\* exit_commands() of a module whose on_exit triggers on_startup, under a
\* weekday listener on a Tuesday: own command, then the triggered commands,
\* both occurrences of the placeholder replaced
C15_Witness ==
    /\ answer.op = "exit_commands" /\ ~answer.raised
    /\ query.module.event_listener.type = "weekday"
    /\ answer.value = <<<<"on_exit", "echo", "tue">>,
                        <<"on_startup", "tue", "and", "tue">>,
                        <<"on_startup", "plain">>>>

\* C16: context_section_imports(trigger) returns one ContextSectionImport
\* per import specification of the block, in order; into_section is unset
\* if and only if from_section is unset: without from_section both are
\* unset, with from_section into_section is to_section when given and
\* from_section otherwise.
C16_SectionsUnsetTogether ==
    answer.op = "context_section_imports" /\ ~answer.raised =>
        LET import_config == query.module.module_config[answer.arg].import_context
            event == Event(query.module.event_listener, query.now)
        IN /\ Len(answer.value) = Len(import_config)
           /\ \A k \in DOMAIN answer.value :
                 /\ answer.value[k].into_section = None
                       <=> answer.value[k].from_section = None
                 /\ answer.value[k].from_config_file
                       = Replace(import_config[k].from_path, EventPlaceholder, event)
                 /\ import_config[k].from_section = None =>
                       answer.value[k].from_section = None
                 /\ import_config[k].from_section # None =>
                       /\ answer.value[k].from_section
                             = Replace(import_config[k].from_section, EventPlaceholder, event)
                       /\ answer.value[k].into_section
                             = Replace(IF import_config[k].to_section # None
                                       THEN import_config[k].to_section
                                       ELSE import_config[k].from_section,
                                       EventPlaceholder, event)

\* three specifications: from_section only, from_section with to_section,
\* and to_section without from_section
C16_Witness ==
    /\ answer.op = "context_section_imports" /\ ~answer.raised
    /\ answer.arg = "on_event"
    /\ Len(answer.value) = 3
    /\ answer.value[1].from_section = <<"sec-", "now">>
    /\ answer.value[1].into_section = <<"sec-", "now">>
    /\ answer.value[2].from_section = <<"fonts">>
    /\ answer.value[2].into_section = <<"to-", "now">>
    /\ answer.value[3].from_section = None
    /\ answer.value[3].into_section = None

\* C20: context_section_imports(trigger) accepts each of on_startup,
\* on_event and on_exit: it returns the imports of the block and fails no
\* assertion.
C20_EveryTriggerAccepted ==
    answer.op = "context_section_imports" =>
        /\ ~answer.raised
        /\ Len(answer.value)
              = Len(query.module.module_config[answer.arg].import_context)

(***************************************************************************)
(* Temporary files and hot reload (Spec).                                  *)
(***************************************************************************)
\* the string holds the path
Mentions(string, path) ==
    \E i \in 1..(Len(string) - Len(path) + 1) :
        SubSeq(string, i, i + Len(path) - 1) = path

\* as long as a manager has not run exit(), its temporary files exist
TempFilesKept ==
    \A id \in DOMAIN managers' :
        ~exited'[id] => Range(managers'[id].temp_files) \subseteq temp_open'

\* a temporary file disappears only in its owner's exit()
ReleasedByOwnerExit ==
    \A f \in temp_open \ temp_open' :
        \E id \in DOMAIN managers :
            f \in Range(managers[id].temp_files) /\ ~exited[id] /\ exited'[id]

\* no command of this call names a temporary file of its manager that
\* existed neither when the call began nor when it ended
NoCommandOnReleasedFile ==
    \A i \in DOMAIN log' :
        log'[i].act = "run" =>
            \A f \in Range(managers'[log'[i].mgr].temp_files) :
                Mentions(log'[i].arg[1], f) => f \in temp_open \cup temp_open'

\* C17: while a manager has not executed exit(), every temporary
\* compilation target it allocated exists; a temporary file is released
\* only by its owning manager's exit(); so no command is ever run with a
\* placeholder replaced by the path of a released temporary file.
C17_TempFilesOutliveUse ==
    [][TempFilesKept /\ ReleasedByOwnerExit /\ NoCommandOnReleasedFile]_vars

\* C18: in a successful hot reload the new manager is constructed first,
\* then the old manager's exit commands run and its watcher stops, and only
\* then the new manager's startup batch runs: no exit command of the old
\* manager follows a startup action of the new one, and none runs unless
\* the new manager has been constructed.
C18_ReloadOrder ==
    last.op = "modified" /\ last.path = RootConfigFile =>
        /\ last.outcome = "reloaded" =>
              /\ log[1].act = "construct" /\ log[1].mgr = last.built
              /\ \A i, j \in DOMAIN log :
                    /\ log[i].mgr = last.mgr /\ log[i].trigger = "on_exit"
                    /\ log[j].mgr = last.built /\ log[j].trigger = "on_startup"
                    => 1 < i /\ i < j
              /\ managers[last.mgr].directory_watcher = "stopped"
              /\ managers[last.built].startup_done
        /\ (\E i \in DOMAIN log : log[i].trigger = "on_exit") =>
              \E c \in DOMAIN log :
                  /\ log[c].act = "construct"
                  /\ \A i \in DOMAIN log : log[i].trigger = "on_exit" => c < i

\* a reload in which the old manager ran an exit command and the new one a
\* startup command
C18_Witness ==
    /\ last.op = "modified" /\ last.outcome = "reloaded"
    /\ \E i, j \in DOMAIN log :
          /\ log[i].mgr = last.mgr /\ log[i].trigger = "on_exit" /\ log[i].act = "run"
          /\ log[j].mgr = last.built /\ log[j].trigger = "on_startup" /\ log[j].act = "run"

\* C19: trigger resolution also applies to the entries of on_modified: once
\* the module is constructed, the run list that modified_commands(path)
\* reads, and likewise the compile and import_context lists of the entry,
\* hold the declared actions of every block the entry names under trigger.
C19_ModifiedTriggersResolved ==
    pc[1] = "done" /\ HasModified(module_config, <<"p1">>) =>
        \A ref \in Range(ModifiedBlock(Declared, <<"p1">>).trigger),
           category \in Categories :
            Range(DeclaredOf(ref, category))
                \subseteq Range(ModifiedBlock(module_config, <<"p1">>)[category])

(***************************************************************************)
(* Properties of modified(path) on a watched path.                         *)
(***************************************************************************)
\* the module and the on_modified block a watched path belongs to
WatchedBlock(m, path) ==
    LET watched_file == DictGet(m.on_modified_paths, path)
    IN [module |-> watched_file.module,
        block |-> ModifiedBlock(DictGet(m.modules, watched_file.module).module_config,
                                watched_file.specified_path)]

\* C21: when a watched path is modified, the import_context specifications
\* of the owning module's on_modified block for that path are applied to the
\* application context, one import per specification, before the block's
\* compilations.
C21_ModifiedImportsContext ==
    [][/\ last'.op = "modified" /\ last'.path # RootConfigFile
       /\ DictHas(managers[last'.mgr].on_modified_paths, last'.path)
       => LET w == WatchedBlock(managers[last'.mgr], last'.path)
          IN /\ Len(ArgsOf(log', {"import"}, w.module, "on_modified"))
                   = Len(w.block.import_context)
             /\ \A i, j \in DOMAIN log' :
                   log'[i].act = "import" /\ log'[j].act \in CompileActs => i < j
      ]_vars

\* C22: modified(path) runs no import, compilation or command and leaves
\* the managers (modules, application context, registries, baseline,
\* startup flag, watcher), the host's reference and the temporary files
\* unchanged when path is the root configuration file and hot reload is
\* disabled, and when path is neither the root configuration file nor a key
\* of the watched-path registry.
C22_ModifiedNoOp ==
    [][/\ last'.op = "modified"
       /\ \/ /\ last'.path = RootConfigFile
             /\ ~Configs[managers[last'.mgr].application_config].hot_reload
          \/ /\ last'.path # RootConfigFile
             /\ ~DictHas(managers[last'.mgr].on_modified_paths, last'.path)
       => /\ log' = <<>>
          /\ last'.outcome \in {"disabled", "ignored"}
          /\ UNCHANGED <<managers, host, temp_open, temp_count, startups, exited>>
      ]_vars

\* the watcher of a running manager without hot reload reported the root
\* configuration file, whose contents differ from the manager's
C22_Witness ==
    /\ last.op = "modified" /\ last.path = RootConfigFile /\ last.outcome = "disabled"
    /\ managers[last.mgr].startup_done
    /\ disk # managers[last.mgr].application_config

(***************************************************************************)
(* Properties of the registries a manager is constructed with.             *)
(***************************************************************************)
\* the compile specifications of the effective lists of every module of a
\* manager: per module on_startup, on_event, on_exit, then the on_modified
\* entries
DeclaredCompiles(m) ==
    Flatten([i \in DOMAIN m.modules |->
        LET mc == m.modules[i].value.module_config
        IN mc.on_startup.compile \o mc.on_event.compile \o mc.on_exit.compile
               \o Flatten([k \in DOMAIN mc.on_modified |-> mc.on_modified[k].block.compile])])

\* the last specification of a template path among them
LastDeclared(compiles, template) ==
    compiles[CHOOSE i \in DOMAIN compiles :
                /\ compiles[i].template = template
                /\ \A j \in DOMAIN compiles : compiles[j].template = template => j <= i]

\* C23: the template registry of a manager holds an entry for the template
\* path of every compile specification of every event block of its modules,
\* trigger-appended ones included, and for nothing else; the entry of a
\* path declared several times is that of its last declaration in scan
\* order; the string-substitution table maps exactly the registry's keys to
\* their targets.
C23_RegistryComplete ==
    \A id \in DOMAIN managers :
        LET m == managers[id]
            compiles == DeclaredCompiles(m)
        IN /\ DictKeys(m.templates) = {compiles[i].template : i \in DOMAIN compiles}
           /\ \A k \in DOMAIN m.templates :
                 LET spec == LastDeclared(compiles, m.templates[k].key)
                     entry == m.templates[k].value
                 IN /\ entry.source = expand_path(spec.template)
                    /\ IF spec.target = None THEN entry.target \in Range(m.temp_files)
                       ELSE entry.target = expand_path(spec.target)
           /\ \A k, l \in DOMAIN m.templates :
                 m.templates[k].key = m.templates[l].key => k = l
           /\ DictKeys(m.string_replacements) = DictKeys(m.templates)
           /\ Len(m.string_replacements) = Len(m.templates)
           /\ \A k \in DOMAIN m.templates :
                 DictGet(m.string_replacements, m.templates[k].key)
                     = m.templates[k].value.target

\* a manager two of whose modules declare the template t1 with different
\* targets, the later one by a trigger-appended specification as well
C23_Witness ==
    \E id \in DOMAIN managers :
        LET compiles == DeclaredCompiles(managers[id])
        IN /\ \E i, j \in DOMAIN compiles :
                 /\ i < j
                 /\ compiles[i].template = <<"t1">> /\ compiles[j].template = <<"t1">>
                 /\ compiles[i].target # compiles[j].target
           /\ Len(DictGet(managers[id].modules, <<"b">>).module_config.on_startup.compile) = 2
           /\ \E k \in DOMAIN managers[id].templates :
                 managers[id].templates[k].value.target \in Range(managers[id].temp_files)

(***************************************************************************)
(* Properties of the manager's life cycle.                                 *)
(***************************************************************************)
\* what a call executes: context imports, compilations and shell commands
Executions == {"import", "compile", "compile_error", "run"}

\* C24: once exit() has been called on a manager, a later finish_tasks()
\* call on it executes no context import, template compilation or shell
\* command, and the manager stays stopped: its watcher is never running
\* again.
C24_StoppedIsTerminal ==
    [][/\ last'.op = "finish_tasks" /\ exited[last'.mgr]
          => \A i \in DOMAIN log' : log'[i].act \notin Executions
       /\ \A id \in DOMAIN managers :
             exited[id] => managers'[id].directory_watcher = "stopped"
      ]_vars

(***************************************************************************)
(* Properties of the context imports of a batch.                           *)
(***************************************************************************)
\* the import specifications a batch applies: module by module, each
\* module's effective import_context list as declared
ExpectedImports(m, trigger) ==
    Flatten([i \in DOMAIN m.modules |->
                m.modules[i].value.module_config[trigger].import_context])

\* the sections of the application context an import specification names
TargetsOf(spec) ==
    IF spec.from_section = None THEN DOMAIN ContextFiles[expand_path(spec.from_path)]
    ELSE {IF spec.to_section # None THEN spec.to_section ELSE spec.from_section}

\* the subtree of the file that the specification puts at a section
SourceOf(spec, name) ==
    ContextFiles[expand_path(spec.from_path)]
        [IF spec.from_section = None THEN name ELSE spec.from_section]

\* the import entries of a trace, in order
RECURSIVE ImportArgs(_)
ImportArgs(entries) ==
    IF entries = <<>> THEN <<>>
    ELSE (IF Head(entries).act = "import" THEN <<Head(entries).arg>> ELSE <<>>)
         \o ImportArgs(Tail(entries))

WatcherAfterStartup ==
    /\ \A id \in DOMAIN managers :
          managers[id].directory_watcher = "running" => managers[id].startup_done
    /\ last.op = "modified" =>
          managers[last.mgr].startup_done /\ startups[last.mgr] >= 1
    /\ \A i \in DOMAIN log :
          log[i].trigger = "on_modified" =>
             managers[log[i].mgr].startup_done /\ startups[log[i].mgr] >= 1

\* C26: the watcher of a manager is started only by the manager's startup
\* batch, after the last startup command, and is stopped by exit(); so no
\* on_modified action and no hot reload is executed by a manager that has
\* not started, and every on_modified action of a manager comes after its
\* startup commands.
C26_WatcherOnlyAfterStartup ==
    [][/\ WatcherAfterStartup /\ WatcherAfterStartup'
       /\ \A id \in DOMAIN managers' :
             /\ managers'[id].directory_watcher = "running"
             /\ id \in DOMAIN managers => managers[id].directory_watcher # "running"
             => /\ \/ last'.op = "finish_tasks" /\ last'.mgr = id
                      /\ last'.outcome = "on_startup"
                   \/ last'.op = "modified" /\ last'.built = id
                      /\ last'.outcome = "reloaded"
                /\ id \in DOMAIN managers => ~managers[id].startup_done
                /\ \A i \in DOMAIN log' :
                      log'[i].mgr = id /\ log'[i].act \in Executions
                         => log'[i].trigger = "on_startup"
                /\ FullBatch(SelectSeq(log', LAMBDA e : e.mgr = id),
                             managers'[id], "on_startup")
       /\ last'.op = "exit" => managers'[last'.mgr].directory_watcher = "stopped"
       /\ \A id \in DOMAIN managers :
             /\ managers[id].directory_watcher = "running"
             /\ managers'[id].directory_watcher # "running"
             => managers'[id].directory_watcher = "stopped" /\ exited'[id]
      ]_vars

\* the watcher of a started manager reported a watched path and the
\* manager ran the on_modified commands of the path
C26_Witness ==
    /\ last.op = "modified" /\ last.outcome = "ok"
    /\ \E i \in DOMAIN log : log[i].trigger = "on_modified" /\ log[i].act = "run"
    /\ managers[last.mgr].directory_watcher = "running"
    /\ startups[last.mgr] = 1

\* C27: no event change is lost: the baseline an on_event batch stores is
\* the snapshot its commands were interpolated with, so that when a
\* listener's value changes while the batch is executing,
\* has_unfinished_tasks() is true after the batch.
C27_NoEventChangeLost ==
    [][last'.op = "finish_tasks" /\ last'.outcome = "on_event" /\ last' # last
       => /\ managers'[last'.mgr].last_module_events
                = module_events(managers[last'.mgr], clock)
          /\ module_events(managers[last'.mgr], clock')
                # module_events(managers[last'.mgr], clock)
             => has_unfinished_tasks(managers'[last'.mgr], clock')
      ]_vars

(***************************************************************************)
(* Further properties of Module construction (ModuleSpec).                 *)
(***************************************************************************)
\* C28: constructing a Module does not change the action lists of the
\* configuration mapping it is given: a second Module constructed from the
\* same mapping has the effective run, import_context and compile lists of
\* the first (trigger-appended actions are not appended a second time).
C28_ConstructionRepeatable ==
    pc[1] = "again" =>
        \A b \in DOMAIN EventBlockNames, category \in Categories :
            module_config[EventBlockNames[b]][category]
                = import_trigger_actions(Declared).mc[EventBlockNames[b]][category]

\* every trigger reference of the three top-level blocks names a block
AllRefsExist ==
    \A b \in DOMAIN EventBlockNames :
        \A ref \in Range(Declared[EventBlockNames[b]].trigger) :
            \/ Len(ref) = 1 /\ ref[1] \in Range(EventBlockNames)
            \/ ref[1] = "on_modified." /\ HasModified(Declared, Tail(ref))

RECURSIVE SumOf(_)
SumOf(numbers) == IF numbers = <<>> THEN 0 ELSE Head(numbers) + SumOf(Tail(numbers))

\* an import at most doubles the longest list of a category, so the lists
\* of a category stay within the declared actions of the category times
\* 2 to the number of declared triggers
ListsWithinBound ==
    LET triggers == SumOf([b \in DOMAIN EventBlockNames |->
                              Len(Declared[EventBlockNames[b]].trigger)])
        DeclaredCount(category) ==
            SumOf([b \in DOMAIN EventBlockNames |->
                      Len(Declared[EventBlockNames[b]][category])])
            + SumOf([i \in DOMAIN Declared.on_modified |->
                      Len(Declared.on_modified[i].block[category])])
    IN \A b \in DOMAIN EventBlockNames, category \in Categories :
          Len(module_config[EventBlockNames[b]][category])
              <= DeclaredCount(category) * 2 ^ triggers

\* C29: for every module declaration whose trigger references name existing
\* blocks, a block that triggers itself and blocks that trigger each other
\* included, trigger resolution terminates, and with finite effective
\* action lists.
C29_ResolutionTerminates ==
    (pc[1] = "declared" /\ AllRefsExist) ~> (pc[1] = "done" /\ ListsWithinBound)

\* the construction ended for a module whose on_startup and on_event blocks
\* trigger each other
C29_Witness ==
    /\ pc[1] = "done"
    /\ Declared.on_startup.trigger = <<<<"on_event">>>>
    /\ Declared.on_event.trigger = <<<<"on_startup">>>>
    /\ Declared.on_startup.run = <<<<"s1">>>>
    /\ Declared.on_event.run = <<<<"e1">>, <<"e2">>>>
    /\ module_config.on_startup.run = <<<<"s1">>, <<"e1">>, <<"e2">>>>
    /\ module_config.on_event.run = <<<<"e1">>, <<"e2">>, <<"s1">>, <<"e1">>, <<"e2">>>>

====
